---------------------------- MODULE Spec2Model ----------------------------
(***************************************************************************)
(* Obstacle lifecycle and concurrency core of SDL-Snake-Game:              *)
(* Obstacle / FixedObstacle / MovingObstacle, MovementPatterns,            *)
(* ObstacleManager and ThreadedObstacleManager.                            *)
(*                                                                         *)
(* Specifications:                                                         *)
(*   Spec      the base ObstacleManager driven by one thread               *)
(*   SpecMove  one MovingObstacle and its Update()                         *)
(*   SpecT     ThreadedObstacleManager: simulation thread, lifetime worker *)
(*             and sweep task, the collection filled before the first      *)
(*             worker is started                                           *)
(*   SpecLife  obstacles spawned with their default lifetimes, then the    *)
(*             worker started and left running                             *)
(*   SpecRace  ThreadedObstacleManager with the simulation thread calling  *)
(*             the inherited operations while the worker runs              *)
(***************************************************************************)
EXTENDS Integers, Sequences, FiniteSets, TLC

(***************************************************************************)
(* IEEE-754 binary32 arithmetic on the values the program uses.  A float   *)
(* is held as an integer count of a power-of-two unit (2^-27 for           *)
(* lifetimes, 2^-28 for speeds and movement counters), so that every value *)
(* and every rounded result of the program is an integer.                  *)
(***************************************************************************)
F32Mantissa == 2^24

RECURSIVE F32Ulp(_)
F32Ulp(n) == IF n < F32Mantissa THEN 1 ELSE 2 * F32Ulp(n \div 2)

\* round-to-nearest, ties-to-even, of a non-negative exact value
F32Round(n) ==
    LET u == F32Ulp(n)
        q == n \div u
        r == n % u
    IN  IF 2 * r < u THEN q * u
        ELSE IF 2 * r > u THEN (q + 1) * u
        ELSE IF q % 2 = 0 THEN q * u ELSE (q + 1) * u

F32Sub(a, b) == IF a >= b THEN F32Round(a - b) ELSE 0 - F32Round(b - a)
F32Add(a, b) == F32Round(a + b)
F32Max(a, b) == IF a >= b THEN a ELSE b

LifeScale == 2^27
\* float literals of the lifetime path, in units of 2^-27
kFixedDefaultLifetime == 1610612736
kMovingDefaultLifetime == 939524096
kWorkerDelta == 13421773
\* lifetime_updates_count % 50: wake cycles between two sweeps
SweepPeriod == 50
epsilon == 16
F32_0_2 == 26843546
F32_0_3 == 40265320
F32_0_5 == 67108864
F32_0_6 == 80530640
F32_1_0 == 134217728

MoveScale == 2^28
\* float literals of the movement path, in units of 2^-28
kDefaultSpeed == 13421773
SpeedOne == 268435456

\* static_cast<int>(float) of a non-negative movement value
FloatToInt(v) == v \div MoveScale

RateScale == 2^30
\* float literals of SetDifficultyLevel and spawn_rate{0.5f}, in units of 2^-30
kSpeedBase == 53687092
kSpeedPerLevel == 10737418
kRateBase == 322122560
kRatePerLevel == 107374184
kDefaultSpawnRate == 536870912
kDefaultLevel == 1

\* 0.05f + (level * 0.01f), in units of 2^-28 like every speed
LevelSpeed(level) ==
    F32Add(kSpeedBase, F32Round(level * kSpeedPerLevel)) \div (RateScale \div MoveScale)

\* 0.3f + (level * 0.1f), in units of 2^-30
LevelRate(level) == F32Add(kRateBase, F32Round(level * kRatePerLevel))


(***************************************************************************)
(* Bounds of the model.                                                    *)
(***************************************************************************)
\* obstacles ever constructed in one behaviour
MaxSpawns == 2
\* calls of MovingObstacle::Update() on the obstacle under test (SpecMove)
MaxTicks == 6
\* calls of UpdateObstacleMovement() that tick a moving obstacle
MaxMoves == 1
\* wake cycles the worker begins in one behaviour of SpecRace
MaxPasses == 2
\* calls of Game::Update() in one behaviour of SpecGame
MaxFrames == 4
\* calls of GenerateObstaclesWithCallback in one behaviour of SpecPool
MaxRequests == 2
\* largest retry budget of a generation config
MaxRetries == 3
\* DecrementLifetime calls on the obstacle under test
MaxDecays == 11
\* SetDifficultyLevel calls between the ShouldSpawnObstacle calls
MaxLevelings == 1
\* worker threads StartLifetimeThread creates where they are counted
MaxStarts == 2

VARIABLES
    grid_width,             \* ObstacleManager::grid_width / Obstacle::grid_width
    grid_height,            \* ObstacleManager::grid_height / Obstacle::grid_height
    obstacles,              \* ObstacleManager::obstacles, in insertion order
    moving_obstacle_speed,  \* ObstacleManager::moving_obstacle_speed
    hist,                   \* history of the behaviour (see HistInit)
    returned,               \* <<operation, outcome>> of the last call (see Outcome)
    obstacles_mutex,        \* ThreadedObstacleManager::obstacles_mutex (std::shared_mutex)
    shutdown_requested,     \* ThreadedObstacleManager::shutdown_requested
    thread_running,         \* ThreadedObstacleManager::thread_running
    lifetime_updates_count, \* ThreadedObstacleManager::lifetime_updates_count % 50
    lifetime_thread,        \* position of the worker in LifetimeWorkerThread()
    cleanup_future,         \* state of the task made by CleanupExpiredAsync()
    sim,                    \* the call the simulation thread is executing
    crashed,                \* the process was aborted by a data race
    difficulty_level,       \* ObstacleManager::difficulty_level
    spawn_rate,             \* ObstacleManager::spawn_rate
    spawn_timer,            \* ObstacleManager::spawn_timer
    snake,                  \* Game::snake: head_x, head_y, alive
    game,                   \* Game: currentState, score, food and the frame history
    task_queue,             \* AsyncObstacleGenerator::task_queue, the requests queued
    stop_threads,           \* AsyncObstacleGenerator::stop_threads
    queue_mutex,            \* AsyncObstacleGenerator::queue_mutex: the thread owning it
    worker_threads,         \* AsyncObstacleGenerator::worker_threads: position of each
    caller,                 \* the call of the generator its owner is executing
    callbacks,              \* per request: accepted, calls of its callback, calling thread
    gen,                    \* the run of GenerateObstaclesWorker(config) in progress
    validate,               \* the call of ValidatePositionsWorker and its result
    destroyed,              \* which of the manager and the generator has been destroyed
    scores_,                \* HighScoreManager::scores_: the list of score entries
    scores_file,            \* the lines of the score file after its header line
    engine,                 \* AsyncObstacleGenerator::engine: the tasks inside a draw
    async_tasks             \* the tasks of the generator that draw from its engine

\* the state of the threads and of their synchronization
tvars ==
    <<obstacles_mutex, shutdown_requested, thread_running, lifetime_updates_count,
      lifetime_thread, cleanup_future, sim, crashed>>

\* the difficulty configuration of the manager
mvars == <<difficulty_level, spawn_rate, spawn_timer>>

\* the state outside the obstacle collection and its worker
\* the game around the manager
gvars == <<snake, game>>

\* the thread pool of the generator
pvars == <<task_queue, stop_threads, queue_mutex, worker_threads, caller, callbacks>>

\* the high-score list and its file
hsvars == <<scores_, scores_file>>

\* the random engine of the generator and the tasks that use it
evars == <<engine, async_tasks>>

\* the worker functions of the generator
avars == <<gen, validate, destroyed, hsvars, evars>>

xvars == <<mvars, gvars, pvars, avars>>

vars ==
    <<grid_width, grid_height, obstacles, moving_obstacle_speed, hist, returned,
      obstacles_mutex, shutdown_requested, thread_running, lifetime_updates_count,
      lifetime_thread, cleanup_future, sim, crashed, xvars>>

\* history: ids = obstacles constructed, ticks = movement updates, started =
\* a worker has been started, origin = cell of the obstacle under test when it
\* was last configured, decremented = exact sum of the decrements applied to
\* the obstacle under test, counted up to its constructed lifetime, elapsed =
\* exact sum of the delta_time passed to ShouldSpawnObstacle since its last
\* true result, starts = worker threads created, where a specification counts
\* them
HistInit ==
    [ids |-> 0, ticks |-> 0, started |-> FALSE, origin |-> [x |-> 0, y |-> 0],
     decremented |-> 0, elapsed |-> 0, starts |-> 0]

\* the last call, its outcome (the value a query returned, the number of
\* obstacles an Add or a sweep added or erased) and the cell it was passed
Outcome(op, value, x, y) == <<op, value, [x |-> x, y |-> y]>>
NoReturn == Outcome("none", 0, 0, 0)

Patterns == {"LINEAR_HORIZONTAL", "LINEAR_VERTICAL", "CIRCULAR", "ZIGZAG", "RANDOM_WALK"}

Point(x, y) == [x |-> x, y |-> y]

Min(a, b) == IF a <= b THEN a ELSE b
Max(a, b) == IF a >= b THEN a ELSE b

(***************************************************************************)
(* Obstacle, FixedObstacle, MovingObstacle                                 *)
(***************************************************************************)
\* An obstacle carries, besides its fields, its own history: lifetime_seconds
\* is the lifetime it was constructed with, decays the number of worker
\* decrements applied to it while it was not expired, stale the number of wake
\* cycles the worker has completed while it was expired.

\* FixedObstacle(x, y, grid_width, grid_height, lifetime_seconds)
FixedObstacle(id, x, y, lifetime) ==
    [id |-> id, type |-> "FIXED", x |-> x, y |-> y,
     remaining_lifetime |-> lifetime,
     pattern |-> "NONE", speed |-> 0, direction |-> 1, movement_counter |-> 0,
     lifetime_seconds |-> lifetime, decays |-> 0, stale |-> 0]

\* MovingObstacle(x, y, grid_width, grid_height, pattern, lifetime_seconds)
MovingObstacle(id, x, y, pattern, lifetime) ==
    [id |-> id, type |-> "MOVING", x |-> x, y |-> y,
     remaining_lifetime |-> lifetime,
     pattern |-> pattern, speed |-> kDefaultSpeed, direction |-> 1,
     movement_counter |-> 0,
     lifetime_seconds |-> lifetime, decays |-> 0, stale |-> 0]

SetSpeed(o, speed) == [o EXCEPT !.speed = speed]

\* mutant: the pattern is changed and the counter is left running
SetPatternKeepingCounter(o, pattern) == [o EXCEPT !.pattern = pattern]

\* MovingObstacle::SetPattern
SetPattern(o, pattern) == [o EXCEPT !.pattern = pattern, !.movement_counter = 0]

IsExpired(o) == o.remaining_lifetime < epsilon

GetRemainingLifetime(o) == o.remaining_lifetime

\* mutant: the result is not floored at zero
DecrementedLifetimeUnfloored(current, delta_time) == F32Sub(current, delta_time)

\* the value DecrementLifetime stores, having loaded `current`
DecrementedLifetime(current, delta_time) == F32Max(0, F32Sub(current, delta_time))

\* DecrementLifetime run without interference between its load and its store
DecrementLifetime(o, delta_time) ==
    [o EXCEPT !.remaining_lifetime = DecrementedLifetime(o.remaining_lifetime, delta_time)]

CollidesWithPoint(o, x, y) == o.x = x /\ o.y = y

(***************************************************************************)
(* MovementPatterns                                                        *)
(***************************************************************************)
\* CalculateLinearMovement(current, int direction, speed)
CalculateLinearMovement(current, direction, speed) ==
    CASE direction = 0 -> Point(current.x, current.y - FloatToInt(speed))
      [] direction = 1 -> Point(current.x + FloatToInt(speed), current.y)
      [] direction = 2 -> Point(current.x, current.y + FloatToInt(speed))
      [] direction = 3 -> Point(current.x - FloatToInt(speed), current.y)
      [] OTHER -> current

\* static_cast<int>(radius * cos(angle)) ranges over -TrigRange .. TrigRange
\* for radius = min(grid_width, grid_height) / 4.0f
TrigRange(gw, gh) == Min(gw, gh) \div 4

\* CalculateCircularMovement; c and s stand for the truncated radius*cos(angle)
\* and radius*sin(angle), which the model does not compute for angle /= 0
CalculateCircularMovement(center, c, s, gw, gh) ==
    Point(Max(0, Min(gw - 1, center.x + c)), Max(0, Min(gh - 1, center.y + s)))

\* y offset of a zigzag point: cycle_pos = phase / 4
ZigzagOffset(amplitude, phase) ==
    IF phase < 2 THEN amplitude * (phase - 1) ELSE amplitude * (3 - phase)

RECURSIVE ZigzagPhases(_, _, _, _, _, _)
ZigzagPhases(start, amplitude, step, gw, x, phase) ==
    IF phase >= 4 \/ x + step * phase >= gw THEN << >>
    ELSE <<Point(x + step * phase, start.y + ZigzagOffset(amplitude, phase))>>
         \o ZigzagPhases(start, amplitude, step, gw, x, phase + 1)

RECURSIVE ZigzagFrom(_, _, _, _, _)
ZigzagFrom(start, amplitude, step, gw, x) ==
    IF x >= gw THEN << >>
    ELSE ZigzagPhases(start, amplitude, step, gw, x, 0)
         \o ZigzagFrom(start, amplitude, step, gw, x + step)

\* CalculateZigzagPath(start, amplitude, wavelength, grid_width)
CalculateZigzagPath(start, amplitude, wavelength, gw) ==
    ZigzagFrom(start, amplitude, wavelength \div 4, gw, start.x)

\* the random inputs of one Update() of obstacle o: the random-walk direction
\* (dist(gen)) and the truncated trigonometric terms of the circular pattern;
\* only the inputs the pattern reads vary
RndSet(o, gw, gh) ==
    LET r == TrigRange(gw, gh)
    IN  CASE o.pattern = "RANDOM_WALK" -> [dir : 0..3, c : {0}, s : {0}]
          [] o.pattern = "CIRCULAR" /\ o.movement_counter /= 0 ->
                [dir : {0}, c : (0 - r)..r, s : (0 - r)..r]
          [] OTHER -> [dir : {0}, c : {0}, s : {0}]

\* MovementCalculator::ProcessMovement -> HandlePatternSwitch
HandlePatternSwitch(pattern, current, speed, counter, direction, gw, gh, rnd) ==
    CASE pattern = "LINEAR_HORIZONTAL" ->
            CalculateLinearMovement(current, IF direction = 1 THEN 0 ELSE 2, speed)
      [] pattern = "LINEAR_VERTICAL" ->
            CalculateLinearMovement(current, IF direction = 1 THEN 1 ELSE 3, speed)
      [] pattern = "CIRCULAR" ->
            LET center == Point(gw \div 2, gh \div 2)
                c == IF counter = 0 THEN TrigRange(gw, gh) ELSE rnd.c
                s == IF counter = 0 THEN 0 ELSE rnd.s
            IN  CalculateCircularMovement(center, c, s, gw, gh)
      [] pattern = "ZIGZAG" ->
            LET path == CalculateZigzagPath(current, 3, 8, gw)
            IN  IF path /= << >>
                THEN path[(FloatToInt(counter) % Len(path)) + 1]
                ELSE current
      [] pattern = "RANDOM_WALK" ->
            CalculateLinearMovement(current, rnd.dir, speed)
      [] OTHER -> current

\* mutant: the upper bounds are tested with > instead of >=
ValidateMovementOffByOne(new_pos, gw, gh) ==
    [x |-> IF new_pos.x < 0 THEN gw - 1 ELSE IF new_pos.x > gw THEN 0 ELSE new_pos.x,
     y |-> IF new_pos.y < 0 THEN gh - 1 ELSE IF new_pos.y > gh THEN 0 ELSE new_pos.y]

\* MovementPatterns::ValidateMovement, on the position the movement yields
ValidateMovement(new_pos, gw, gh) ==
    Point(IF new_pos.x < 0 THEN gw - 1 ELSE IF new_pos.x >= gw THEN 0 ELSE new_pos.x,
          IF new_pos.y < 0 THEN gh - 1 ELSE IF new_pos.y >= gh THEN 0 ELSE new_pos.y)

\* mutant: the movement update also writes the remaining lifetime
MovingUpdateAging(o, gw, gh, rnd) ==
    LET new_pos == HandlePatternSwitch(o.pattern, Point(o.x, o.y), o.speed,
                                       o.movement_counter, o.direction, gw, gh, rnd)
        pos == ValidateMovement(new_pos, gw, gh)
    IN  [o EXCEPT !.x = pos.x, !.y = pos.y,
                  !.movement_counter = F32Add(o.movement_counter, o.speed),
                  !.remaining_lifetime = 0]

\* MovingObstacle::Update
MovingUpdate(o, gw, gh, rnd) ==
    LET new_pos == HandlePatternSwitch(o.pattern, Point(o.x, o.y), o.speed,
                                       o.movement_counter, o.direction, gw, gh, rnd)
        pos == ValidateMovement(new_pos, gw, gh)
    IN  [o EXCEPT !.x = pos.x, !.y = pos.y,
                  !.movement_counter = F32Add(o.movement_counter, o.speed)]

\* mutant: the update of a fixed obstacle uses up its lifetime
FixedUpdateExpiring(o) == [o EXCEPT !.remaining_lifetime = 0]

\* FixedObstacle::Update
FixedUpdate(o) == o

\* the virtual call obstacle->Update()
Update(o, gw, gh, rnd) ==
    IF o.type = "MOVING" THEN MovingUpdate(o, gw, gh, rnd) ELSE FixedUpdate(o)


(***************************************************************************)
(* ObstacleManager: the operations as functions of the collection          *)
(***************************************************************************)
\* mutant: the query skips obstacles that are expired but not yet swept
CollisionSkippingExpired(obs, x, y) ==
    \E i \in 1..Len(obs) : ~IsExpired(obs[i]) /\ CollidesWithPoint(obs[i], x, y)

\* ObstacleManager::CheckCollisionWithPoint: std::any_of over the collection
CollisionWithPoint(obs, x, y) ==
    \E i \in 1..Len(obs) : CollidesWithPoint(obs[i], x, y)

\* ObstacleManager::IsPositionFree
IsPositionFree(obs, x, y) == ~CollisionWithPoint(obs, x, y)

\* ObstacleManager::IsValidFoodPosition
ValidFoodPosition(obs, x, y) == ~CollisionWithPoint(obs, x, y)

InBounds(x, y, gw, gh) == x >= 0 /\ x < gw /\ y >= 0 /\ y < gh

\* mutant: the occupied-cell test is missing
AddFixedUnchecked(obs, id, x, y, lifetime, gw, gh) ==
    IF InBounds(x, y, gw, gh)
    THEN Append(obs, FixedObstacle(id, x, y, lifetime))
    ELSE obs

\* ObstacleManager::AddFixedObstacle
AddFixed(obs, id, x, y, lifetime, gw, gh) ==
    IF InBounds(x, y, gw, gh) /\ IsPositionFree(obs, x, y)
    THEN Append(obs, FixedObstacle(id, x, y, lifetime))
    ELSE obs

\* ObstacleManager::AddMovingObstacle
AddMoving(obs, id, x, y, pattern, lifetime, speed, gw, gh) ==
    IF InBounds(x, y, gw, gh) /\ IsPositionFree(obs, x, y)
    THEN Append(obs, SetSpeed(MovingObstacle(id, x, y, pattern, lifetime), speed))
    ELSE obs

RECURSIVE Reverse(_)
Reverse(q) == IF q = << >> THEN << >> ELSE Append(Reverse(Tail(q)), Head(q))

RECURSIVE RemoveFirstExpired(_)
\* mutant: erase(remove_if(...)) without the end iterator erases one obstacle
RemoveFirstExpired(obs) ==
    IF obs = << >> THEN << >>
    ELSE IF IsExpired(Head(obs)) THEN Tail(obs)
    ELSE <<Head(obs)>> \o RemoveFirstExpired(Tail(obs))

\* mutant: an unstable removal, the survivors end up in reverse order
RemoveExpiredUnstable(obs) == Reverse(SelectSeq(obs, LAMBDA o : ~IsExpired(o)))

\* the erase(remove_if(..., IsExpired), end) of ClearExpiredObstacles
RemoveExpired(obs) == SelectSeq(obs, LAMBDA o : ~IsExpired(o))

\* ObstacleManager::UpdateObstacleMovement: Update() on every obstacle; the
\* set of collections it can yield, over the random inputs of the updates
RECURSIVE MoveAll(_, _, _)
MoveAll(obs, gw, gh) ==
    IF obs = << >> THEN {<< >>}
    ELSE {<<h>> \o t : h \in {Update(Head(obs), gw, gh, r) : r \in RndSet(Head(obs), gw, gh)},
                       t \in MoveAll(Tail(obs), gw, gh)}

\* ThreadedObstacleManager::SafelyUpdateMovingObstacles, the loop under the
\* lock: Update() on the obstacles whose GetType() is MOVING, the others are
\* not touched
RECURSIVE MoveMoving(_, _, _)
MoveMoving(obs, gw, gh) ==
    IF obs = << >> THEN {<< >>}
    ELSE {<<h>> \o t :
            h \in IF Head(obs).type = "MOVING"
                  THEN {MovingUpdate(Head(obs), gw, gh, r) : r \in RndSet(Head(obs), gw, gh)}
                  ELSE {Head(obs)},
            t \in MoveMoving(Tail(obs), gw, gh)}

\* ObstacleManager::UpdateObstacleLifetimes
DecayAll(obs, delta_time) ==
    [i \in 1..Len(obs) |-> DecrementLifetime(obs[i], delta_time)]

\* ObstacleManager::SetMovingObstacleSpeed, on the collection
SpeedAll(obs, speed) ==
    [i \in 1..Len(obs) |->
        IF obs[i].type = "MOVING" THEN SetSpeed(obs[i], speed) ELSE obs[i]]

(***************************************************************************)
(* ThreadedObstacleManager: threads and synchronization state              *)
(***************************************************************************)
\* std::shared_mutex: the threads holding it shared, the thread holding it
\* exclusively
MutexFree == [shared |-> {}, unique |-> "none"]
CanLockShared(m) == m.unique = "none"
CanLockUnique(m) == m.unique = "none" /\ m.shared = {}
LockShared(m, t) == [m EXCEPT !.shared = @ \cup {t}]
UnlockShared(m, t) == [m EXCEPT !.shared = @ \ {t}]
LockUnique(m, t) == [m EXCEPT !.unique = t]
UnlockUnique(m) == [m EXCEPT !.unique = "none"]

\* the worker at a point of LifetimeWorkerThread(): i is the obstacle its
\* traversal has reached, current the lifetime DecrementLifetime has loaded
WorkerAt(pc, i, current) == [pc |-> pc, i |-> i, current |-> current]
NoWorker == WorkerAt("none", 0, 0)

\* the simulation thread at a point of a call: x, y and arg (a lifetime or a
\* delta_time) are the arguments, i and current as for the worker
SimAt(pc, op, x, y, arg, i, current) ==
    [pc |-> pc, op |-> op, x |-> x, y |-> y, arg |-> arg, i |-> i,
     current |-> current]
SimIdle == SimAt("idle", "none", 0, 0, 0, 0, 0)

\* mutant: a sweep is started on every wake cycle
SweepDueAlways(count) == count = count

\* lifetime_updates_count % 50 == 0, on the count kept modulo 50 (the 64-bit
\* counter itself cannot wrap within any run)
SweepDue(count) == count % SweepPeriod = 0

\* the outcomes of an access that may race with a concurrent mutation of the
\* collection: it goes through, or the process is aborted
RaceOutcomes(racing) == IF racing THEN {FALSE, TRUE} ELSE {FALSE}

\* the state after the constructor ThreadedObstacleManager(grid_width, grid_height)
ThreadInit ==
    /\ obstacles_mutex = MutexFree
    /\ shutdown_requested = FALSE
    /\ thread_running = FALSE
    /\ lifetime_updates_count = 0
    /\ lifetime_thread = NoWorker
    /\ cleanup_future = "none"
    /\ sim = SimIdle
    /\ crashed = FALSE

\* the member initializers of ObstacleManager's configuration
ManagerInit ==
    /\ difficulty_level = kDefaultLevel
    /\ spawn_rate = kDefaultSpawnRate
    /\ spawn_timer = 0

\* the player entity exposes a head position, held in units of 1/HeadScale of
\* a cell, and an alive flag
HeadScale == 2
Snake(gw, gh) ==
    [head_x |-> (gw * HeadScale) \div 2, head_y |-> (gh * HeadScale) \div 2,
     alive |-> TRUE]

\* static_cast<int>(snake.head_x), static_cast<int>(snake.head_y)
HeadCell(s) == Point(s.head_x \div HeadScale, s.head_y \div HeadScale)

\* a Game that has not placed its food; frames counts the calls of Update(),
\* before is the collection as the last Update() found it, hung says that
\* the while (true) of PlaceFood() has no cell left to end on
GameNew ==
    [currentState |-> "ENTER_NAME", score |-> 0, food |-> Point(0, 0),
     frames |-> 0, before |-> << >>, hung |-> FALSE]

\* no game is attached to the manager
GameInit ==
    /\ snake = Snake(0, 0)
    /\ game = GameNew

\* thread_pool_size = 2
kThreadPoolSize == 2
PoolThreads == 1..kThreadPoolSize
Requests == 1..MaxRequests

\* a pool thread at position pc of ThreadPoolWorker(), holding the task it took
PoolAt(pc, task) == [pc |-> pc, task |-> task]
\* the owner of the generator inside a call: op at position pc, i the thread
\* it joins next, req the request it enqueues
CallerAt(pc, op, i, req) == [pc |-> pc, op |-> op, i |-> i, req |-> req]
CallerIdle == CallerAt("idle", "none", 0, 0)
NoCallback == [accepted |-> FALSE, calls |-> 0, by |-> 0]

\* no generator exists
PoolInit ==
    /\ task_queue = << >>
    /\ stop_threads = FALSE
    /\ queue_mutex = 0
    /\ worker_threads = [w \in PoolThreads |-> PoolAt("none", 0)]
    /\ caller = CallerIdle
    /\ callbacks = [r \in Requests |-> NoCallback]

\* a run of GenerateObstaclesWorker(config) at position pc: kind and i are the
\* loop and its counter, used_positions and obstacles the two vectors, tried
\* the samples drawn for the obstacle in hand, last the samples and the fate
\* of the obstacle handled before, done the obstacles handled so far
NoConfig == [fixed_count |-> 0, moving_count |-> 0, forbidden_positions |-> {},
             max_retries |-> 0]
NoGeneration ==
    [pc |-> "none", config |-> NoConfig, kind |-> "FIXED", i |-> 0, retries |-> 0,
     position |-> Point(0, 0), used_positions |-> {}, obstacles |-> << >>,
     tried |-> << >>,
     last |-> [tried |-> << >>, used |-> {}, placed |-> FALSE, position |-> Point(0, 0)],
     done |-> 0]

\* no call of ValidatePositionsWorker has been made
NoValidation ==
    [pc |-> "none", positions |-> << >>,
     snake |-> [head_x |-> 0, head_y |-> 0, body |-> << >>],
     food |-> Point(0, 0), result |-> FALSE]

\* both objects exist
NoneDestroyed == [manager |-> FALSE, generator |-> FALSE]

\* the tasks of one generator that can run at the same time: two made by
\* std::async (GenerateObstaclesAsync, GenerateValidPositionsAsync) and one
\* callback task run by a pool thread
EngineTasks == {1, 2, 3}

\* no task has been made and no thread is inside a draw
EngineInit ==
    /\ engine = [users |-> {}, raced |-> FALSE]
    /\ async_tasks = [t \in EngineTasks |-> [pc |-> "none", draws |-> 0]]

\* HighScoreManager::CreateEmptyFile(): the file holds its header line only
EmptyFile == [exists |-> TRUE, lines |-> << >>]

\* HighScoreManager(filename) where no score file exists: LoadScores() clears
\* the list and creates the empty file
ScoresInit ==
    /\ scores_ = << >>
    /\ scores_file = EmptyFile

\* no worker function is running
WorkInit ==
    /\ gen = NoGeneration
    /\ validate = NoValidation
    /\ destroyed = NoneDestroyed
    /\ ScoresInit
    /\ EngineInit

\* the state outside the obstacle collection and its worker, at construction
RestInit == ManagerInit /\ GameInit /\ PoolInit /\ WorkInit

(***************************************************************************)
(* Inputs                                                                  *)
(***************************************************************************)
\* grids the managers are constructed with
GridSizes == {<<10, 10>>}
\* in-range columns and rows drawn by the random engine and passed by callers
Cols == {0, 3}
Rows == {3}
\* the same with an out-of-range coordinate on either side
CallCols(gw) == Cols \cup {0 - 1, gw}
CallRows(gh) == Rows \cup {0 - 1, gh}
\* patterns passed to AddMovingObstacle and drawn by GetRandomMovementPattern
\* in the manager specifications (SpecMove covers every pattern)
ManagerPatterns == {"LINEAR_HORIZONTAL", "ZIGZAG"}
\* lifetimes passed to AddFixedObstacle / AddMovingObstacle
Lifetimes == {F32_1_0}
\* delta_time passed to UpdateObstacleLifetimes
Deltas == {F32_0_5, F32_0_6}

(***************************************************************************)
(* Spec: the base ObstacleManager, every operation one step                *)
(***************************************************************************)
Init ==
    /\ \E g \in GridSizes : grid_width = g[1] /\ grid_height = g[2]
    /\ obstacles = << >>
    /\ moving_obstacle_speed = kDefaultSpeed
    /\ hist = HistInit
    /\ returned = NoReturn
    /\ ThreadInit
    /\ RestInit

\* history of an Add call that turned obstacles into obs
Added(obs) == [hist EXCEPT !.ids = @ + (Len(obs) - Len(obstacles))]

AddFixedObstacle(x, y, lifetime) ==
    /\ hist.ids < MaxSpawns
    /\ obstacles' = AddFixed(obstacles, hist.ids + 1, x, y, lifetime, grid_width, grid_height)
    /\ hist' = Added(obstacles')
    /\ returned' = Outcome("AddFixedObstacle", Len(obstacles') - Len(obstacles), x, y)
    /\ UNCHANGED <<xvars, grid_width, grid_height, moving_obstacle_speed>>
    /\ UNCHANGED tvars

AddMovingObstacle(x, y, pattern, lifetime) ==
    /\ hist.ids < MaxSpawns
    /\ obstacles' = AddMoving(obstacles, hist.ids + 1, x, y, pattern, lifetime,
                              moving_obstacle_speed, grid_width, grid_height)
    /\ hist' = Added(obstacles')
    /\ returned' = Outcome("AddMovingObstacle", Len(obstacles') - Len(obstacles), x, y)
    /\ UNCHANGED <<xvars, grid_width, grid_height, moving_obstacle_speed>>
    /\ UNCHANGED tvars

\* mutant: the sampled cell is not tested and the obstacle is emplaced
SpawnRandomBlind(obs, id, pos, fixed, pattern, speed, gw, gh) ==
    IF fixed
    THEN Append(obs, FixedObstacle(id, pos.x, pos.y, kFixedDefaultLifetime))
    ELSE Append(obs, SetSpeed(MovingObstacle(id, pos.x, pos.y, pattern,
                                             kMovingDefaultLifetime), speed))

\* pos is GenerateRandomPosition(), fixed is type_dist(engine) < 0.6f,
\* pattern is GetRandomMovementPattern()
SpawnRandom(obs, id, pos, fixed, pattern, speed, gw, gh) ==
    IF ~IsPositionFree(obs, pos.x, pos.y) THEN obs
    ELSE IF fixed
         THEN AddFixed(obs, id, pos.x, pos.y, kFixedDefaultLifetime, gw, gh)
         ELSE AddMoving(obs, id, pos.x, pos.y, pattern, kMovingDefaultLifetime,
                        speed, gw, gh)

SpawnRandomObstacle(pos, fixed, pattern) ==
    /\ hist.ids < MaxSpawns
    /\ obstacles' = SpawnRandom(obstacles, hist.ids + 1, pos, fixed, pattern,
                                moving_obstacle_speed, grid_width, grid_height)
    /\ hist' = Added(obstacles')
    /\ returned' = Outcome("SpawnRandomObstacle", Len(obstacles') - Len(obstacles),
                           pos.x, pos.y)
    /\ UNCHANGED <<xvars, grid_width, grid_height, moving_obstacle_speed>>
    /\ UNCHANGED tvars

ClearExpiredObstacles ==
    /\ obstacles' = RemoveExpired(obstacles)
    /\ returned' = Outcome("ClearExpiredObstacles", Len(obstacles) - Len(obstacles'), 0, 0)
    /\ UNCHANGED <<xvars, grid_width, grid_height, moving_obstacle_speed, hist>>
    /\ UNCHANGED tvars

ClearAllObstacles ==
    /\ obstacles' = << >>
    /\ returned' = NoReturn
    /\ UNCHANGED <<xvars, grid_width, grid_height, moving_obstacle_speed, hist>>
    /\ UNCHANGED tvars

\* UpdateObstacleMovement(), called at most limit times in a behaviour
UpdateObstacleMovementWithin(limit) ==
    /\ hist.ticks < limit
    /\ obstacles' \in MoveAll(obstacles, grid_width, grid_height)
    /\ hist' = [hist EXCEPT !.ticks = @ + 1]
    /\ returned' = NoReturn
    /\ UNCHANGED <<xvars, grid_width, grid_height, moving_obstacle_speed>>
    /\ UNCHANGED tvars

UpdateObstacleMovement == UpdateObstacleMovementWithin(MaxMoves)

UpdateObstacleLifetimes(delta_time) ==
    /\ obstacles' = DecayAll(obstacles, delta_time)
    /\ returned' = NoReturn
    /\ UNCHANGED <<xvars, grid_width, grid_height, moving_obstacle_speed, hist>>
    /\ UNCHANGED tvars

CheckCollisionWithPoint(x, y) ==
    /\ returned' = Outcome("CheckCollisionWithPoint", CollisionWithPoint(obstacles, x, y), x, y)
    /\ UNCHANGED <<xvars, grid_width, grid_height, obstacles, moving_obstacle_speed, hist>>
    /\ UNCHANGED tvars

Next ==
    \/ \E x \in CallCols(grid_width), y \in CallRows(grid_height), l \in Lifetimes :
          AddFixedObstacle(x, y, l)
    \/ \E x \in CallCols(grid_width), y \in CallRows(grid_height), l \in Lifetimes,
          p \in ManagerPatterns : AddMovingObstacle(x, y, p, l)
    \/ ClearExpiredObstacles
    \/ ClearAllObstacles
    \/ UpdateObstacleMovement
    \/ \E d \in Deltas : UpdateObstacleLifetimes(d)
    \/ \E x \in CallCols(grid_width), y \in CallRows(grid_height) :
          CheckCollisionWithPoint(x, y)

Spec == Init /\ [][Next]_vars

(***************************************************************************)
(* Claims on the base ObstacleManager (Spec)                               *)
(***************************************************************************)
\* indices of the obstacles of obs that are not expired
Kept(obs) == {i \in 1..Len(obs) : ~IsExpired(obs[i])}

\* the j-th smallest index of Kept(obs)
NthKept(obs, j) ==
    CHOOSE i \in Kept(obs) : Cardinality({k \in Kept(obs) : k < i}) = j - 1

\* C6: ClearExpiredObstacles() removes exactly the obstacles whose IsExpired()
\* is true at the call and keeps every other obstacle in its original
\* relative order.
C6_ClearExpiredExact ==
    [][ClearExpiredObstacles =>
          /\ Len(obstacles') = Cardinality(Kept(obstacles))
          /\ \A j \in 1..Len(obstacles') : obstacles'[j] = obstacles[NthKept(obstacles, j)]
      ]_vars

\* C6 witness: a sweep has just erased one obstacle (lifetime 1.0, decremented
\* by 0.5 and then 0.6) and kept the younger one, which saw only the 0.6
C6_Witness ==
    /\ returned = Outcome("ClearExpiredObstacles", 1, 0, 0)
    /\ Len(obstacles) = 1
    /\ obstacles[1].id = 2
    /\ obstacles[1].remaining_lifetime = DecrementedLifetime(F32_1_0, F32_0_6)

\* C7: CheckCollisionWithPoint(x,y) returns true iff at least one obstacle
\* of the collection, expired ones included, has position exactly (x,y).
C7_CollisionIffOccupied ==
    [][returned'[1] = "CheckCollisionWithPoint" =>
          (returned'[2] <=>
              returned'[3] \in {Point(obstacles[i].x, obstacles[i].y) :
                                   i \in 1..Len(obstacles)})
      ]_vars

\* C7 witness: the query answered true while every obstacle was expired
C7_Witness ==
    /\ returned[1] = "CheckCollisionWithPoint"
    /\ returned[2] = TRUE
    /\ Len(obstacles) >= 1
    /\ \A i \in 1..Len(obstacles) : IsExpired(obstacles[i])

\* what an Add call at (x,y) of an obstacle of type t must do to the collection
AddPost(x, y, t) ==
    IF /\ 0 <= x /\ x < grid_width /\ 0 <= y /\ y < grid_height
       /\ \A i \in 1..Len(obstacles) : ~(obstacles[i].x = x /\ obstacles[i].y = y)
    THEN /\ Len(obstacles') = Len(obstacles) + 1
         /\ SubSeq(obstacles', 1, Len(obstacles)) = obstacles
         /\ obstacles'[Len(obstacles')].x = x
         /\ obstacles'[Len(obstacles')].y = y
         /\ obstacles'[Len(obstacles')].type = t
    ELSE obstacles' = obstacles

\* C8: AddFixedObstacle / AddMovingObstacle append exactly one new obstacle at
\* (x,y) when the cell is in-bounds and unoccupied; otherwise the collection
\* (size, order, every obstacle) is unchanged.
C8_AddOrNoOp ==
    [][/\ returned'[1] = "AddFixedObstacle" =>
              AddPost(returned'[3].x, returned'[3].y, "FIXED")
       /\ returned'[1] = "AddMovingObstacle" =>
              AddPost(returned'[3].x, returned'[3].y, "MOVING")
      ]_vars

\* C8 witness: an Add on the cell of a fixed obstacle was refused
C8_Witness ==
    /\ Len(obstacles) = 1
    /\ returned = Outcome("AddMovingObstacle", 0, obstacles[1].x, obstacles[1].y)
    /\ obstacles[1].type = "FIXED"

\* C8 second witness: an Add appended a moving obstacle behind a fixed one
C8_WitnessAppended ==
    /\ Len(obstacles) = 2
    /\ returned = Outcome("AddMovingObstacle", 1, obstacles[2].x, obstacles[2].y)
    /\ obstacles[1].type = "FIXED"

(***************************************************************************)
(* SpecMove: one MovingObstacle, constructed inside its grid, configured   *)
(* with SetSpeed / SetPattern and ticked with Update().  The collection    *)
(* holds just that obstacle.                                               *)
(***************************************************************************)
\* grids the obstacle under test is constructed with
MoveGrids == {<<5, 5>>, <<3, 4>>}
\* speeds passed to SetSpeed
Speeds == {kDefaultSpeed, SpeedOne}

InitMove ==
    /\ \E g \in MoveGrids : grid_width = g[1] /\ grid_height = g[2]
    /\ \E x \in 0..(grid_width - 1), y \in 0..(grid_height - 1), p \in Patterns :
          /\ obstacles = <<MovingObstacle(1, x, y, p, kMovingDefaultLifetime)>>
          /\ hist = [HistInit EXCEPT !.ids = 1, !.origin = Point(x, y)]
    /\ moving_obstacle_speed = kDefaultSpeed
    /\ returned = NoReturn
    /\ ThreadInit
    /\ RestInit

\* obstacle.Update()
MoveUpdate ==
    /\ hist.ticks < MaxTicks
    /\ \E r \in RndSet(obstacles[1], grid_width, grid_height) :
          obstacles' = <<Update(obstacles[1], grid_width, grid_height, r)>>
    /\ hist' = [hist EXCEPT !.ticks = @ + 1]
    /\ returned' = NoReturn
    /\ UNCHANGED <<xvars, grid_width, grid_height, moving_obstacle_speed>>
    /\ UNCHANGED tvars

\* obstacle.SetSpeed(speed), before the obstacle is ticked
MoveSetSpeed(speed) ==
    /\ hist.ticks = 0
    /\ obstacles' = <<SetSpeed(obstacles[1], speed)>>
    /\ UNCHANGED <<xvars, grid_width, grid_height, moving_obstacle_speed, hist, returned>>
    /\ UNCHANGED tvars

\* obstacle.SetPattern(pattern); the history restarts from the current cell,
\* and the outcome recorded is the number of updates the call came after
MoveSetPattern(pattern) ==
    /\ obstacles' = <<SetPattern(obstacles[1], pattern)>>
    /\ hist' = [hist EXCEPT !.ticks = 0,
                            !.origin = Point(obstacles[1].x, obstacles[1].y)]
    /\ returned' = Outcome("SetPattern", hist.ticks, obstacles[1].x, obstacles[1].y)
    /\ UNCHANGED <<xvars, grid_width, grid_height, moving_obstacle_speed>>
    /\ UNCHANGED tvars

NextMove ==
    \/ MoveUpdate
    \/ \E s \in Speeds : MoveSetSpeed(s)
    \/ \E p \in Patterns : MoveSetPattern(p)

SpecMove == InitMove /\ [][NextMove]_vars

\* C9: a Moving obstacle constructed inside the grid stays inside it after
\* any number of Update() calls, for every movement pattern:
\* 0 <= x < gridWidth and 0 <= y < gridHeight.
C9_MovingStaysInGrid ==
    \A i \in 1..Len(obstacles) :
        /\ 0 <= obstacles[i].x /\ obstacles[i].x < grid_width
        /\ 0 <= obstacles[i].y /\ obstacles[i].y < grid_height

\* C9 witness: a zigzag obstacle at unit speed that has been ticked five times
\* and sits on the last row
C9_Witness ==
    /\ hist.ticks >= 5
    /\ obstacles[1].pattern = "ZIGZAG"
    /\ obstacles[1].speed = SpeedOne
    /\ obstacles[1].y = grid_height - 1

\* C10: a linear-horizontal obstacle changes only its x coordinate, by
\* speed*direction per Update(), and reverses at the edge: from (0,0) with
\* speed 1 and direction +1 on a grid of width 5, x is 1, 2, 3, 4 after the
\* first four Update() calls and 3 after the fifth.
C10_LinearHorizontalScenario ==
    LET o == obstacles[1]
    IN  (/\ o.pattern = "LINEAR_HORIZONTAL"
         /\ o.speed = SpeedOne
         /\ grid_width = 5
         /\ hist.origin = Point(0, 0)
         /\ hist.ticks <= 5)
        => /\ o.y = 0
           /\ o.x = (IF hist.ticks <= 4 THEN hist.ticks ELSE 3)

(***************************************************************************)
(* ThreadedObstacleManager: the lifetime worker and the sweep task         *)
(***************************************************************************)
\* what no step of the worker, of the sweep task or of a locking call changes
config == <<grid_width, grid_height, moving_obstacle_speed, xvars>>

\* obstacle o after the worker stored the lifetime `stored` into it
Decayed(o, stored) ==
    [o EXCEPT !.remaining_lifetime = stored,
              !.decays = IF IsExpired(o) THEN @ ELSE @ + 1]

\* the collection after the worker completed one more wake cycle
Staled(obs) ==
    [i \in 1..Len(obs) |->
        IF IsExpired(obs[i]) THEN [obs[i] EXCEPT !.stale = @ + 1] ELSE obs[i]]

\* mutant: the wait has no timeout, a blocked worker stays blocked
WorkerWaitUntilNotified ==
    /\ lifetime_thread.pc = "blocked"
    /\ lifetime_thread' = lifetime_thread
    /\ UNCHANGED <<config, obstacles, hist, returned, obstacles_mutex,
                   shutdown_requested, thread_running, lifetime_updates_count,
                   cleanup_future, sim, crashed>>

\* mutant: the shared lock of the decay pass is not released
WorkerKeepsLock ==
    /\ lifetime_thread.pc = "decay"
    /\ lifetime_thread.i > Len(obstacles)
    /\ lifetime_thread' = WorkerAt("count", 0, 0)
    /\ UNCHANGED <<config, obstacles, hist, returned, obstacles_mutex,
                   shutdown_requested, thread_running, lifetime_updates_count,
                   cleanup_future, sim, crashed>>

\* while (!shutdown_requested.load())
WorkerLoop ==
    /\ lifetime_thread.pc = "loop"
    /\ lifetime_thread' = IF shutdown_requested THEN WorkerAt("exited", 0, 0)
                          ELSE WorkerAt("decay_lock", 0, 0)
    /\ UNCHANGED <<config, obstacles, hist, returned, obstacles_mutex,
                   shutdown_requested, thread_running, lifetime_updates_count,
                   cleanup_future, sim, crashed>>

\* ProcessAtomicLifetimeUpdates: std::shared_lock lock(obstacles_mutex)
WorkerLockShared ==
    /\ lifetime_thread.pc = "decay_lock"
    /\ CanLockShared(obstacles_mutex)
    /\ obstacles_mutex' = LockShared(obstacles_mutex, "worker")
    /\ lifetime_thread' = WorkerAt("decay", 1, 0)
    /\ UNCHANGED <<config, obstacles, hist, returned, shutdown_requested,
                   thread_running, lifetime_updates_count, cleanup_future, sim, crashed>>

\* DecrementLifetime(0.1f): float current = remaining_lifetime.load()
WorkerLoad ==
    /\ lifetime_thread.pc = "decay"
    /\ lifetime_thread.i <= Len(obstacles)
    /\ lifetime_thread' = WorkerAt("store", lifetime_thread.i,
                                   obstacles[lifetime_thread.i].remaining_lifetime)
    /\ UNCHANGED <<config, obstacles, hist, returned, obstacles_mutex,
                   shutdown_requested, thread_running, lifetime_updates_count,
                   cleanup_future, sim, crashed>>

\* DecrementLifetime(0.1f): remaining_lifetime.store(std::max(0.0f, current - delta_time));
\* an obstacle erased under the traversal is no longer written to
WorkerStore ==
    /\ lifetime_thread.pc = "store"
    /\ obstacles' =
          IF lifetime_thread.i <= Len(obstacles)
          THEN [obstacles EXCEPT ![lifetime_thread.i] =
                   Decayed(@, DecrementedLifetime(lifetime_thread.current, kWorkerDelta))]
          ELSE obstacles
    /\ lifetime_thread' = WorkerAt("decay", lifetime_thread.i + 1, 0)
    /\ UNCHANGED <<config, hist, returned, obstacles_mutex, shutdown_requested,
                   thread_running, lifetime_updates_count, cleanup_future, sim, crashed>>

\* the end of ProcessAtomicLifetimeUpdates: the shared lock is released
WorkerUnlock ==
    /\ lifetime_thread.pc = "decay"
    /\ lifetime_thread.i > Len(obstacles)
    /\ obstacles_mutex' = UnlockShared(obstacles_mutex, "worker")
    /\ lifetime_thread' = WorkerAt("count", 0, 0)
    /\ UNCHANGED <<config, obstacles, hist, returned, shutdown_requested,
                   thread_running, lifetime_updates_count, cleanup_future, sim, crashed>>

\* lifetime_updates_count.fetch_add(1) and, every 50th time,
\* auto cleanup_future = CleanupExpiredAsync()
WorkerCount ==
    /\ lifetime_thread.pc = "count"
    /\ lifetime_updates_count' = (lifetime_updates_count + 1) % SweepPeriod
    /\ obstacles' = Staled(obstacles)
    /\ IF SweepDue(lifetime_updates_count')
       THEN /\ cleanup_future' = "lock"
            /\ lifetime_thread' = WorkerAt("future", 0, 0)
       ELSE /\ cleanup_future' = cleanup_future
            /\ lifetime_thread' = WorkerAt("wait", 0, 0)
    /\ UNCHANGED <<config, hist, returned, obstacles_mutex, shutdown_requested,
                   thread_running, sim, crashed>>

\* the task of CleanupExpiredAsync: std::unique_lock lock(obstacles_mutex)
SweepLockUnique ==
    /\ cleanup_future = "lock"
    /\ CanLockUnique(obstacles_mutex)
    /\ obstacles_mutex' = LockUnique(obstacles_mutex, "sweep")
    /\ cleanup_future' = "hold"
    /\ UNCHANGED <<config, obstacles, hist, returned, shutdown_requested,
                   thread_running, lifetime_updates_count, lifetime_thread, sim, crashed>>

\* the simulation thread is inside a traversal that holds no lock
SimTraversesUnlocked == sim.pc \in {"load", "store"}

\* the task of CleanupExpiredAsync: SafelyCleanupExpired(), the return and the
\* release of the unique lock
SweepRun ==
    /\ cleanup_future = "hold"
    /\ obstacles' = RemoveExpired(obstacles)
    /\ obstacles_mutex' = UnlockUnique(obstacles_mutex)
    /\ cleanup_future' = "done"
    /\ crashed' \in RaceOutcomes(SimTraversesUnlocked /\ obstacles' /= obstacles)
    /\ UNCHANGED <<config, hist, returned, shutdown_requested, thread_running,
                   lifetime_updates_count, lifetime_thread, sim>>

\* the closing brace of the if: ~future() of a std::async future blocks until
\* the task has finished
WorkerFutureDone ==
    /\ lifetime_thread.pc = "future"
    /\ cleanup_future = "done"
    /\ cleanup_future' = "none"
    /\ lifetime_thread' = WorkerAt("wait", 0, 0)
    /\ UNCHANGED <<config, obstacles, hist, returned, obstacles_mutex,
                   shutdown_requested, thread_running, lifetime_updates_count, sim, crashed>>

\* wait_for(lock, update_interval, pred): the predicate is evaluated first
WorkerWaitCheck ==
    /\ lifetime_thread.pc = "wait"
    /\ lifetime_thread' = IF shutdown_requested THEN WorkerAt("loop", 0, 0)
                          ELSE WorkerAt("block", 0, 0)
    /\ UNCHANGED <<config, obstacles, hist, returned, obstacles_mutex,
                   shutdown_requested, thread_running, lifetime_updates_count,
                   cleanup_future, sim, crashed>>

\* wait_for: the worker blocks on lifetime_condition; a notification sent
\* before this point is not seen
WorkerBlock ==
    /\ lifetime_thread.pc = "block"
    /\ lifetime_thread' = WorkerAt("blocked", 0, 0)
    /\ UNCHANGED <<config, obstacles, hist, returned, obstacles_mutex,
                   shutdown_requested, thread_running, lifetime_updates_count,
                   cleanup_future, sim, crashed>>

\* wait_for: update_interval (100 ms) has passed, the wait returns
WorkerWaitFor ==
    /\ lifetime_thread.pc = "blocked"
    /\ lifetime_thread' = WorkerAt("loop", 0, 0)
    /\ UNCHANGED <<config, obstacles, hist, returned, obstacles_mutex,
                   shutdown_requested, thread_running, lifetime_updates_count,
                   cleanup_future, sim, crashed>>

\* the steps of the worker that wait for nothing but the scheduler
WorkerStep ==
    \/ WorkerLoop
    \/ WorkerLoad
    \/ WorkerStore
    \/ WorkerUnlock
    \/ WorkerCount
    \/ WorkerFutureDone
    \/ WorkerWaitCheck
    \/ WorkerBlock
    \/ WorkerWaitFor

(***************************************************************************)
(* ThreadedObstacleManager: the calls of the simulation thread             *)
(***************************************************************************)
HasMoving(obs) == \E i \in 1..Len(obs) : obs[i].type = "MOVING"

\* StartLifetimeThread(); created is the history after a thread was created
StartLifetimeThreadAs(created) ==
    /\ sim = SimIdle
    /\ IF ~thread_running
       THEN /\ shutdown_requested' = FALSE
            /\ thread_running' = TRUE
            /\ lifetime_thread' = WorkerAt("loop", 0, 0)
            /\ hist' = created
       ELSE UNCHANGED <<shutdown_requested, thread_running, lifetime_thread, hist>>
    /\ returned' = NoReturn
    /\ UNCHANGED <<config, obstacles, obstacles_mutex, lifetime_updates_count,
                   cleanup_future, sim, crashed>>

StartLifetimeThread == StartLifetimeThreadAs([hist EXCEPT !.started = TRUE])

\* StopLifetimeThread() up to the join: the flag is stored and
\* lifetime_condition.notify_all() wakes the worker if it is blocked
StopLifetimeThread ==
    /\ sim = SimIdle
    /\ IF thread_running
       THEN /\ shutdown_requested' = TRUE
            /\ lifetime_thread' =
                  IF lifetime_thread.pc = "blocked" THEN WorkerAt("wait", 0, 0)
                  ELSE lifetime_thread
            /\ sim' = SimAt("join", "StopLifetimeThread", 0, 0, 0, 0, 0)
            /\ returned' = NoReturn
       ELSE /\ returned' = NoReturn
            /\ UNCHANGED <<shutdown_requested, lifetime_thread, sim>>
    /\ UNCHANGED <<config, obstacles, hist, obstacles_mutex, thread_running,
                   lifetime_updates_count, cleanup_future, crashed>>

\* StopLifetimeThread() that stores thread_running without joining the worker
StopDetached ==
    /\ sim.pc = "join"
    /\ thread_running' = FALSE
    /\ sim' = SimIdle
    /\ returned' = Outcome("StopLifetimeThread", 1, 0, 0)
    /\ UNCHANGED <<config, obstacles, hist, obstacles_mutex, shutdown_requested,
                   lifetime_updates_count, lifetime_thread, cleanup_future, crashed>>

\* StopLifetimeThread(): lifetime_thread.join() returns, thread_running.store(false)
StopJoin ==
    /\ sim.pc = "join"
    /\ lifetime_thread.pc = "exited"
    /\ lifetime_thread' = NoWorker
    /\ thread_running' = FALSE
    /\ sim' = SimIdle
    /\ returned' = Outcome("StopLifetimeThread", 1, 0, 0)
    /\ UNCHANGED <<config, obstacles, hist, obstacles_mutex, shutdown_requested,
                   lifetime_updates_count, cleanup_future, crashed>>

\* a call of ThreadedObstacleManager::CheckCollisionWithPoint(x, y)
SimCallCheckCollisionWithPoint(x, y) ==
    /\ sim = SimIdle
    /\ sim' = SimAt("lock", "CheckCollisionWithPoint", x, y, 0, 0, 0)
    /\ returned' = NoReturn
    /\ UNCHANGED <<config, obstacles, hist, obstacles_mutex, shutdown_requested,
                   thread_running, lifetime_updates_count, lifetime_thread,
                   cleanup_future, crashed>>

\* a call of ThreadedObstacleManager::UpdateObstacleMovement()
SimCallUpdateObstacleMovement ==
    /\ sim = SimIdle
    /\ hist.ticks < MaxMoves \/ ~HasMoving(obstacles)
    /\ sim' = SimAt("lock", "UpdateObstacleMovement", 0, 0, 0, 0, 0)
    /\ returned' = NoReturn
    /\ UNCHANGED <<config, obstacles, hist, obstacles_mutex, shutdown_requested,
                   thread_running, lifetime_updates_count, lifetime_thread,
                   cleanup_future, crashed>>

\* std::shared_lock lock(obstacles_mutex) of the call in progress
SimLockShared ==
    /\ sim.pc = "lock"
    /\ CanLockShared(obstacles_mutex)
    /\ obstacles_mutex' = LockShared(obstacles_mutex, "sim")
    /\ sim' = [sim EXCEPT !.pc = "hold"]
    /\ UNCHANGED <<config, obstacles, hist, returned, shutdown_requested,
                   thread_running, lifetime_updates_count, lifetime_thread,
                   cleanup_future, crashed>>

\* CheckCollisionWithPoint under the lock: the base query, the unlock, the return
SimCheckCollisionWithPoint ==
    /\ sim.pc = "hold"
    /\ sim.op = "CheckCollisionWithPoint"
    /\ returned' = Outcome("CheckCollisionWithPoint",
                           CollisionWithPoint(obstacles, sim.x, sim.y), sim.x, sim.y)
    /\ obstacles_mutex' = UnlockShared(obstacles_mutex, "sim")
    /\ sim' = SimIdle
    /\ UNCHANGED <<config, obstacles, hist, shutdown_requested, thread_running,
                   lifetime_updates_count, lifetime_thread, cleanup_future, crashed>>

\* SafelyUpdateMovingObstacles under the lock, the unlock, the return
SimUpdateObstacleMovement ==
    /\ sim.pc = "hold"
    /\ sim.op = "UpdateObstacleMovement"
    /\ obstacles' \in MoveMoving(obstacles, grid_width, grid_height)
    /\ hist' = [hist EXCEPT !.ticks = IF HasMoving(obstacles) THEN @ + 1 ELSE @]
    /\ obstacles_mutex' = UnlockShared(obstacles_mutex, "sim")
    /\ sim' = SimIdle
    /\ UNCHANGED <<config, returned, shutdown_requested, thread_running,
                   lifetime_updates_count, lifetime_thread, cleanup_future, crashed>>

\* the steps of a locking call that wait for nothing but the scheduler
SimStep ==
    \/ SimCheckCollisionWithPoint
    \/ SimUpdateObstacleMovement
    \/ StopJoin

\* no worker and no sweep task exists: the simulation thread is the only thread
Quiet == sim = SimIdle /\ lifetime_thread = NoWorker /\ cleanup_future = "none"

\* the same before the first worker is started
Fresh == Quiet /\ ~hist.started

(***************************************************************************)
(* SpecT: the simulation thread starts and stops the worker and calls the  *)
(* locking operations at any time; it fills the collection, which takes no *)
(* lock, before it first starts a worker.                                  *)
(***************************************************************************)
\* lifetimes passed to the Add calls
ThreadLifetimes == {F32_0_3}
\* pattern passed to AddMovingObstacle
ThreadPatterns == {"ZIGZAG"}
\* cells passed to the Add calls and to CheckCollisionWithPoint
ThreadCells == {Point(3, 3)}
ThreadQueries == {Point(3, 3)}

NextT ==
    \/ StartLifetimeThread
    \/ StopLifetimeThread
    \/ StopJoin
    \/ \E q \in ThreadQueries : SimCallCheckCollisionWithPoint(q.x, q.y)
    \/ SimCallUpdateObstacleMovement
    \/ SimLockShared
    \/ SimCheckCollisionWithPoint
    \/ SimUpdateObstacleMovement
    \/ Fresh /\ \E c \in ThreadCells, l \in ThreadLifetimes :
                   AddFixedObstacle(c.x, c.y, l)
    \/ Fresh /\ \E c \in ThreadCells, l \in ThreadLifetimes, p \in ThreadPatterns :
                   AddMovingObstacle(c.x, c.y, p, l)
    \/ WorkerLoop
    \/ WorkerLockShared
    \/ WorkerLoad
    \/ WorkerStore
    \/ WorkerUnlock
    \/ WorkerCount
    \/ SweepLockUnique
    \/ SweepRun
    \/ WorkerFutureDone
    \/ WorkerWaitCheck
    \/ WorkerBlock
    \/ WorkerWaitFor

\* Every thread that can run is scheduled; a thread waiting for obstacles_mutex
\* gets it if the mutex is free again and again.  The simulation thread is
\* free to make no further call.
FairT ==
    /\ WF_vars(WorkerStep)
    /\ WF_vars(SimStep)
    /\ WF_vars(SweepRun)
    /\ SF_vars(WorkerLockShared)
    /\ SF_vars(SimLockShared)
    /\ SF_vars(SweepLockUnique)

SpecT == Init /\ [][NextT]_vars /\ FairT

\* C2: StopLifetimeThread always terminates: from any state of the worker
\* (waiting on the condition variable, in the middle of a decay pass, or
\* while a sweep it triggered is pending or in progress) the call eventually
\* returns with the worker thread exited and joined.
C2_StopTerminates ==
    /\ (sim.pc = "join") ~>
          (sim = SimIdle /\ returned = Outcome("StopLifetimeThread", 1, 0, 0))
    /\ [](returned[1] = "StopLifetimeThread" =>
             (lifetime_thread = NoWorker /\ cleanup_future = "none" /\ ~thread_running))

\* C2 witness: the simulation thread is in the join while the sweep the
\* worker triggered holds the collection lock
C2_Witness ==
    /\ sim.pc = "join"
    /\ lifetime_thread.pc = "future"
    /\ cleanup_future = "hold"

\* C2 second witness: the join began while the worker was blocked in wait_for
\* past its predicate, and the call has returned
C2_WitnessReturned ==
    /\ returned = Outcome("StopLifetimeThread", 1, 0, 0)
    /\ lifetime_thread = NoWorker
    /\ lifetime_updates_count = 1

\* C3: while the worker runs for any number of wake cycles (periodic sweeps
\* included) and the simulation thread repeatedly calls
\* CheckCollisionWithPoint and UpdateObstacleMovement, no thread (simulation
\* thread, worker, or sweep task) waits forever on the collection lock: the
\* simulation thread and the sweep task get the lock they wait for, and the
\* worker never finds it taken exclusively.
C3_NoThreadWaitsForever ==
    /\ (sim.pc = "lock") ~> (sim.pc = "hold")
    /\ (cleanup_future = "lock") ~> (cleanup_future = "hold")
    /\ [](lifetime_thread.pc = "decay_lock" => ENABLED WorkerLockShared)

\* C3 witness: the sweep task waits for the lock that the simulation thread
\* holds shared inside UpdateObstacleMovement
C3_Witness ==
    /\ cleanup_future = "lock"
    /\ sim.pc = "hold"
    /\ sim.op = "UpdateObstacleMovement"
    /\ "sim" \in obstacles_mutex.shared

\* C13: when the worker triggers a periodic sweep it does not wait for it: the
\* worker is never held up while the sweep task is pending or running, and the
\* worker thread never holds the exclusive lock.
C13_WorkerDoesNotWaitForSweep ==
    /\ cleanup_future \in {"lock", "hold"} => lifetime_thread.pc /= "future"
    /\ obstacles_mutex.unique /= "worker"

\* the steps of the task made by CleanupExpiredAsync()
SweepStep == SweepLockUnique \/ SweepRun

\* C14: a sweep that cannot take the exclusive lock at once, because readers
\* hold the shared lock, does not block: the sweep task always has a step to
\* take (giving up, to leave the cleanup to the next periodic trigger).
C14_BlockedSweepAbandoned ==
    cleanup_future = "lock" /\ obstacles_mutex.shared /= {} => ENABLED SweepStep

(***************************************************************************)
(* SpecLife: the collection is filled by SpawnRandomObstacle(), which      *)
(* gives an obstacle its default lifetime, then the worker is started and  *)
(* keeps running while the simulation thread queries the collection.       *)
(***************************************************************************)
\* positions drawn by GenerateRandomPosition()
LifeCells == {Point(x, y) : x \in Cols, y \in Rows}

NextLife ==
    \/ Fresh /\ \E pos \in LifeCells, fixed \in BOOLEAN, p \in ThreadPatterns :
                   SpawnRandomObstacle(pos, fixed, p)
    \/ StartLifetimeThread
    \/ \E q \in ThreadQueries : SimCallCheckCollisionWithPoint(q.x, q.y)
    \/ SimLockShared
    \/ SimCheckCollisionWithPoint
    \/ WorkerLoop
    \/ WorkerLockShared
    \/ WorkerLoad
    \/ WorkerStore
    \/ WorkerUnlock
    \/ WorkerCount
    \/ SweepLockUnique
    \/ SweepRun
    \/ WorkerFutureDone
    \/ WorkerWaitCheck
    \/ WorkerBlock
    \/ WorkerWaitFor

SpecLife == Init /\ [][NextLife]_vars /\ FairT

\* a lifetime in wake cycles of the worker (100 ms each)
NominalCycles(lifetime) == lifetime \div (LifeScale \div 10)

Present(id) == \E i \in 1..Len(obstacles) : obstacles[i].id = id

C5_LateExpiry ==
    \E i \in 1..Len(obstacles) :
        /\ obstacles[i].type = "MOVING"
        /\ obstacles[i].decays = NominalCycles(kMovingDefaultLifetime)
        /\ ~IsExpired(obstacles[i])

(***************************************************************************)
(* SpecRace: the simulation thread calls the operations that               *)
(* ThreadedObstacleManager inherits unchanged from ObstacleManager         *)
(* (AddFixedObstacle, ClearAllObstacles, UpdateObstacleLifetimes) while    *)
(* the worker runs.  They take no lock around their access to the          *)
(* collection.  The behaviours end before the worker's first sweep.        *)
(***************************************************************************)
\* lifetimes passed to AddFixedObstacle and delta_time passed to
\* UpdateObstacleLifetimes
RaceLifetimes == {F32_0_3}
RaceDeltas == {F32_0_2}
\* cells passed to AddFixedObstacle
RaceCells == {Point(0, 3), Point(3, 3)}

\* thread t is inside a traversal of the collection
Traversing(t) ==
    CASE t = "worker" -> lifetime_thread.pc \in {"decay", "store"}
      [] t = "sweep" -> cleanup_future = "hold"
      [] t = "sim" -> sim.pc \in {"hold", "load", "store"}

\* a call of AddFixedObstacle(x, y, lifetime) with (x, y) inside the grid
SimCallAddFixedObstacle(x, y, lifetime) ==
    /\ sim = SimIdle
    /\ hist.ids < MaxSpawns
    /\ InBounds(x, y, grid_width, grid_height)
    /\ sim' = SimAt("free", "AddFixedObstacle", x, y, lifetime, 0, 0)
    /\ returned' = NoReturn
    /\ UNCHANGED <<config, obstacles, hist, obstacles_mutex, shutdown_requested,
                   thread_running, lifetime_updates_count, lifetime_thread,
                   cleanup_future, crashed>>

\* AddFixedObstacle: IsPositionFree(x, y), which runs the virtual
\* CheckCollisionWithPoint under its shared lock and releases the lock
SimIsPositionFree ==
    /\ sim.pc = "free"
    /\ CanLockShared(obstacles_mutex)
    /\ IF IsPositionFree(obstacles, sim.x, sim.y)
       THEN /\ sim' = [sim EXCEPT !.pc = "emplace"]
            /\ returned' = returned
       ELSE /\ sim' = SimIdle
            /\ returned' = Outcome(sim.op, 0, sim.x, sim.y)
    /\ UNCHANGED <<config, obstacles, hist, obstacles_mutex, shutdown_requested,
                   thread_running, lifetime_updates_count, lifetime_thread,
                   cleanup_future, crashed>>

\* AddFixedObstacle: obstacles.emplace_back(...), no lock held
SimEmplaceBack ==
    /\ sim.pc = "emplace"
    /\ obstacles' = Append(obstacles, FixedObstacle(hist.ids + 1, sim.x, sim.y, sim.arg))
    /\ hist' = [hist EXCEPT !.ids = @ + 1]
    /\ crashed' \in RaceOutcomes(Traversing("worker") \/ Traversing("sweep"))
    /\ sim' = SimIdle
    /\ returned' = Outcome(sim.op, 1, sim.x, sim.y)
    /\ UNCHANGED <<config, obstacles_mutex, shutdown_requested, thread_running,
                   lifetime_updates_count, lifetime_thread, cleanup_future>>

\* ClearAllObstacles(): obstacles.clear(), no lock held
SimClearAllObstacles ==
    /\ sim = SimIdle
    /\ obstacles' = << >>
    /\ crashed' \in RaceOutcomes(obstacles /= << >>
                                 /\ (Traversing("worker") \/ Traversing("sweep")))
    /\ returned' = NoReturn
    /\ UNCHANGED <<config, hist, obstacles_mutex, shutdown_requested, thread_running,
                   lifetime_updates_count, lifetime_thread, cleanup_future, sim>>

\* a call of UpdateObstacleLifetimes(delta_time): the traversal begins, no lock held
SimCallUpdateObstacleLifetimes(delta_time) ==
    /\ sim = SimIdle
    /\ sim' = SimAt("load", "UpdateObstacleLifetimes", 0, 0, delta_time, 1, 0)
    /\ returned' = NoReturn
    /\ UNCHANGED <<config, obstacles, hist, obstacles_mutex, shutdown_requested,
                   thread_running, lifetime_updates_count, lifetime_thread,
                   cleanup_future, crashed>>

\* DecrementLifetime(delta_time): float current = remaining_lifetime.load()
SimLoad ==
    /\ sim.pc = "load"
    /\ sim.i <= Len(obstacles)
    /\ sim' = [sim EXCEPT !.pc = "store",
                          !.current = obstacles[sim.i].remaining_lifetime]
    /\ UNCHANGED <<config, obstacles, hist, returned, obstacles_mutex,
                   shutdown_requested, thread_running, lifetime_updates_count,
                   lifetime_thread, cleanup_future, crashed>>

\* DecrementLifetime(delta_time): remaining_lifetime.store(std::max(0.0f, current - delta_time));
\* an obstacle erased under the traversal is no longer written to
SimStore ==
    /\ sim.pc = "store"
    /\ obstacles' =
          IF sim.i <= Len(obstacles)
          THEN [obstacles EXCEPT ![sim.i].remaining_lifetime =
                   DecrementedLifetime(sim.current, sim.arg)]
          ELSE obstacles
    /\ sim' = [sim EXCEPT !.pc = "load", !.i = @ + 1, !.current = 0]
    /\ UNCHANGED <<config, hist, returned, obstacles_mutex, shutdown_requested,
                   thread_running, lifetime_updates_count, lifetime_thread,
                   cleanup_future, crashed>>

\* UpdateObstacleLifetimes: the traversal has reached the end, the call returns
SimUpdateObstacleLifetimesDone ==
    /\ sim.pc = "load"
    /\ sim.i > Len(obstacles)
    /\ sim' = SimIdle
    /\ UNCHANGED <<config, obstacles, hist, returned, obstacles_mutex,
                   shutdown_requested, thread_running, lifetime_updates_count,
                   lifetime_thread, cleanup_future, crashed>>

\* an aborted process takes no further step
NextRace ==
    \/ ~crashed /\ StartLifetimeThread
    \/ ~crashed /\ \E c \in RaceCells, l \in RaceLifetimes :
                      SimCallAddFixedObstacle(c.x, c.y, l)
    \/ ~crashed /\ SimIsPositionFree
    \/ ~crashed /\ SimEmplaceBack
    \/ ~crashed /\ SimClearAllObstacles
    \/ ~crashed /\ \E d \in RaceDeltas : SimCallUpdateObstacleLifetimes(d)
    \/ ~crashed /\ SimLoad
    \/ ~crashed /\ SimStore
    \/ ~crashed /\ SimUpdateObstacleLifetimesDone
    \/ ~crashed /\ lifetime_updates_count < MaxPasses /\ WorkerLoop
    \/ ~crashed /\ WorkerLockShared
    \/ ~crashed /\ WorkerLoad
    \/ ~crashed /\ WorkerStore
    \/ ~crashed /\ WorkerUnlock
    \/ ~crashed /\ WorkerCount
    \/ ~crashed /\ WorkerWaitCheck
    \/ ~crashed /\ WorkerBlock
    \/ ~crashed /\ WorkerWaitFor

SpecRace == Init /\ [][NextRace]_vars

\* the ids of the collection, in order
Ids(obs) == [i \in 1..Len(obs) |-> obs[i].id]

\* C1: on a ThreadedObstacleManager whose lifetime worker is running, every
\* public operation the simulation thread may call is synchronized with the
\* worker and with sweeps: the obstacle collection is never inserted into,
\* erased from or cleared while another thread is traversing it.
C1_NoMutationDuringTraversal ==
    [][Ids(obstacles') /= Ids(obstacles) =>
          IF cleanup_future = "hold" /\ cleanup_future' = "done"
          THEN ~Traversing("sim") /\ ~Traversing("worker")
          ELSE ~Traversing("worker") /\ ~Traversing("sweep")
      ]_vars

\* C4: for every obstacle, the value returned by GetRemainingLifetime never
\* increases between its creation and its removal, under any interleaving of
\* operations, DecrementLifetime called on the same obstacle concurrently by
\* the worker and by UpdateObstacleLifetimes on the simulation thread included.
C4_LifetimeNeverIncreases ==
    [][\A i \in 1..Len(obstacles), j \in 1..Len(obstacles') :
          obstacles[i].id = obstacles'[j].id =>
             GetRemainingLifetime(obstacles'[j]) <= GetRemainingLifetime(obstacles[i])
      ]_vars


(***************************************************************************)
(* SpecLevel: the base ObstacleManager with its difficulty configuration:  *)
(* obstacles are added, the difficulty level and the speed of moving       *)
(* obstacles are set.                                                      *)
(***************************************************************************)
\* Game::UpdateDifficulty passes score / kDifficultyIncreaseInterval + 1
Levels == {1, 2, 3}
\* speeds passed to SetMovingObstacleSpeed
LevelSpeeds == {SpeedOne}

SetDifficultyLevel(level) ==
    /\ difficulty_level' = level
    /\ spawn_rate' = LevelRate(level)
    /\ moving_obstacle_speed' = LevelSpeed(level)
    /\ returned' = Outcome("SetDifficultyLevel", level, 0, 0)
    /\ UNCHANGED <<grid_width, grid_height, obstacles, hist, spawn_timer, gvars, pvars,
                   avars>>
    /\ UNCHANGED tvars

SetMovingObstacleSpeed(speed) ==
    /\ moving_obstacle_speed' = speed
    /\ obstacles' = SpeedAll(obstacles, speed)
    /\ returned' = Outcome("SetMovingObstacleSpeed", 0, 0, 0)
    /\ UNCHANGED <<grid_width, grid_height, hist, mvars, gvars, pvars, avars>>
    /\ UNCHANGED tvars

NextLevel ==
    \/ \E x \in Cols, y \in Rows, l \in Lifetimes : AddFixedObstacle(x, y, l)
    \/ \E x \in Cols, y \in Rows, p \in ManagerPatterns, l \in Lifetimes :
          AddMovingObstacle(x, y, p, l)
    \/ \E level \in Levels : SetDifficultyLevel(level)
    \/ \E speed \in LevelSpeeds : SetMovingObstacleSpeed(speed)

SpecLevel == Init /\ [][NextLevel]_vars

\* C11: after SetDifficultyLevel(level) returns, every moving obstacle in the
\* collection has the speed of the new level, 0.05 + 0.01 * level.
C11_LevelSpeedApplied ==
    [][returned'[1] = "SetDifficultyLevel" =>
          \A i \in 1..Len(obstacles') :
             obstacles'[i].type = "MOVING" =>
                obstacles'[i].speed = LevelSpeed(returned'[2])]_vars


(***************************************************************************)
(* SpecGame: the simulation tick, Game::Update(), on the manager.  The     *)
(* obstacles live longer than the frames of a behaviour, so the lifetime   *)
(* worker (SpecT, SpecLife) removes none of them during a tick.            *)
(***************************************************************************)
GameGrids == {<<4, 4>>}
\* GenerateRandomPosition() of a spawn
GameSpawnCells == {Point(1, 3), Point(2, 3)}
\* GetRandomMovementPattern() of a spawn
GamePatterns == {"ZIGZAG"}
\* cells PlaceFood() draws first
FoodCells == {Point(0, 0), Point(3, 3)}
\* the directions the player steers in
Directions == {"kUp", "kDown", "kLeft", "kRight"}

\* Snake::Update(): the head advances in its direction and wraps around the
\* grid; the snake may find it has run into itself
SnakeUpdate(s, direction, dies, gw, gh) ==
    LET w == gw * HeadScale
        h == gh * HeadScale
    IN  [head_x |-> CASE direction = "kLeft" -> (s.head_x + w - 1) % w
                      [] direction = "kRight" -> (s.head_x + 1) % w
                      [] OTHER -> s.head_x,
         head_y |-> CASE direction = "kUp" -> (s.head_y + h - 1) % h
                      [] direction = "kDown" -> (s.head_y + 1) % h
                      [] OTHER -> s.head_y,
         alive |-> ~dies]

\* ObstacleManager::CheckCollisionWithSnake
CollisionWithSnake(obs, s) == CollisionWithPoint(obs, HeadCell(s).x, HeadCell(s).y)

\* the cells PlaceFood() can settle on: not on the snake, not on an obstacle
PlaceFood(obs, s, gw, gh) ==
    LET ok(c) == c /= HeadCell(s) /\ ValidFoodPosition(obs, c.x, c.y)
        cells == [x : 0..(gw - 1), y : 0..(gh - 1)]
        first == {c \in FoodCells \cap cells : ok(c)}
    IN  IF first /= {} THEN first
        ELSE {c \in cells : ok(c)}

\* mutant: the collision check runs before the movement update of the tick
CollisionOfTickBeforeMove(before, after, s) == CollisionWithSnake(before, s)

\* Game::Update(): CheckObstacleCollisions() comes after
\* UpdateObstacleMovement() and HandleObstacleSpawning(); before and after are
\* the collection as the tick found it and as the two calls left it
CollisionOfTick(before, after, s) == CollisionWithSnake(after, s)

\* Game::Game
InitGame ==
    /\ \E g \in GameGrids : grid_width = g[1] /\ grid_height = g[2]
    /\ obstacles = << >>
    /\ moving_obstacle_speed = kDefaultSpeed
    /\ hist = HistInit
    /\ returned = NoReturn
    /\ ThreadInit
    /\ ManagerInit
    /\ PoolInit
    /\ WorkInit
    /\ snake = Snake(grid_width, grid_height)
    /\ \E f \in PlaceFood(<< >>, snake, grid_width, grid_height) :
          game = [GameNew EXCEPT !.food = f]

\* Game::UpdateEnterName, the name being complete
UpdateEnterName ==
    /\ game.currentState = "ENTER_NAME"
    /\ game' = [game EXCEPT !.currentState = "PLAYING"]
    /\ returned' = NoReturn
    /\ UNCHANGED <<grid_width, grid_height, obstacles, moving_obstacle_speed, hist,
                   mvars, snake, pvars, avars>>
    /\ UNCHANGED tvars

\* Game::UpdateGameOver and Game::UpdateShowScores on SDLK_r: ResetGame() and
\* back to the name entry
ResetGame ==
    /\ game.currentState \in {"GAME_OVER", "SHOW_SCORES"}
    /\ obstacles' = << >>
    /\ snake' = Snake(grid_width, grid_height)
    /\ \E f \in PlaceFood(obstacles', snake', grid_width, grid_height) :
          game' = [game EXCEPT !.currentState = "ENTER_NAME", !.score = 0,
                               !.food = f, !.before = << >>]
    /\ returned' = NoReturn
    /\ UNCHANGED <<grid_width, grid_height, moving_obstacle_speed, hist, mvars, pvars,
                   avars>>
    /\ UNCHANGED tvars

\* Game::Update() with the snake found dead: the round is closed
GameUpdateDead ==
    /\ game' = [game EXCEPT !.currentState = "GAME_OVER", !.frames = @ + 1]
    /\ returned' = NoReturn
    /\ UNCHANGED <<obstacles, moving_obstacle_speed, hist, mvars, snake>>

\* Game::Update() with the snake alive.  spawn is the verdict of
\* ShouldSpawnObstacle(frame_delta_time), pos, fixed and pattern the random
\* draws of SpawnRandomObstacle(), direction and dies the player's turn.  The
\* spawn timer behind the verdict is followed in SpecTimer, not here.  When
\* the snake eats and PlaceFood() finds every cell taken, its loop never ends
\* and Update() never returns.
GameUpdateAlive(spawn, pos, fixed, pattern, direction, dies) ==
    \E moved \in MoveAll(obstacles, grid_width, grid_height) :
          LET spawned == IF spawn /\ hist.ids < MaxSpawns
                         THEN SpawnRandom(moved, hist.ids + 1, pos, fixed, pattern,
                                          moving_obstacle_speed, grid_width, grid_height)
                         ELSE moved
              stepped == SnakeUpdate(snake, direction, dies, grid_width, grid_height)
              hit == CollisionOfTick(obstacles, spawned, stepped)
              alive == stepped.alive /\ ~hit
              eats == alive /\ game.food = HeadCell(stepped)
              level == ((game.score + 1) \div 5) + 1
          IN  /\ obstacles' = spawned
              /\ hist' = [hist EXCEPT !.ids = @ + (Len(spawned) - Len(moved))]
              /\ snake' = [stepped EXCEPT !.alive = alive]
              /\ returned' = Outcome("Update", hit, HeadCell(stepped).x, HeadCell(stepped).y)
              /\ IF eats /\ PlaceFood(spawned, stepped, grid_width, grid_height) = {}
                 THEN /\ game' = [game EXCEPT !.score = @ + 1, !.frames = @ + 1,
                                              !.before = obstacles, !.hung = TRUE]
                      /\ UNCHANGED <<mvars, moving_obstacle_speed>>
                 ELSE IF eats
                 THEN /\ \E f \in PlaceFood(spawned, stepped, grid_width, grid_height) :
                            game' = [game EXCEPT !.score = @ + 1, !.food = f,
                                                 !.frames = @ + 1, !.before = obstacles]
                      /\ difficulty_level' = level
                      /\ spawn_rate' = LevelRate(level)
                      /\ moving_obstacle_speed' = LevelSpeed(level)
                      /\ UNCHANGED spawn_timer
                 ELSE /\ game' = [game EXCEPT
                                     !.currentState = IF alive THEN @ ELSE "GAME_OVER",
                                     !.frames = @ + 1, !.before = obstacles]
                      /\ UNCHANGED <<mvars, moving_obstacle_speed>>

\* Game::Run in the PLAYING state: Update()
GameUpdate(spawn, pos, fixed, pattern, direction, dies) ==
    /\ game.currentState = "PLAYING"
    /\ ~game.hung
    /\ game.frames < MaxFrames
    /\ IF ~snake.alive
       THEN GameUpdateDead
       ELSE GameUpdateAlive(spawn, pos, fixed, pattern, direction, dies)
    /\ UNCHANGED <<grid_width, grid_height, pvars, avars>>
    /\ UNCHANGED tvars

NextGame ==
    \/ UpdateEnterName
    \/ ResetGame
    \/ \E spawn \in BOOLEAN, pos \in GameSpawnCells, fixed \in BOOLEAN,
          pattern \in GamePatterns, direction \in Directions, dies \in BOOLEAN :
          GameUpdate(spawn, pos, fixed, pattern, direction, dies)

SpecGame == InitGame /\ [][NextGame]_vars

\* C12: within one tick the movement update is applied before the collision
\* check that can end the round: the check is true exactly when an obstacle
\* is on the head cell after the move, a true check ends the round in the same
\* tick, and an obstacle that left the head cell in the tick does not end it.
C12_CollisionAfterMove ==
    [][returned'[1] = "Update" /\ game'.frames = game.frames + 1 =>
          LET head == returned'[3]
          IN  /\ returned'[2] <=> \E j \in 1..Len(obstacles') :
                                     Point(obstacles'[j].x, obstacles'[j].y) = head
              /\ returned'[2] => ~snake'.alive /\ game'.currentState = "GAME_OVER"
              /\ \A i \in 1..Len(obstacles) :
                    /\ Point(obstacles[i].x, obstacles[i].y) = head
                    /\ \A j \in 1..Len(obstacles') :
                          Point(obstacles'[j].x, obstacles'[j].y) /= head
                    => ~returned'[2]
      ]_vars

\* C12 witness: an obstacle moved onto the head cell in the tick that ended
\* the round
C12_Witness ==
    /\ returned[1] = "Update"
    /\ returned[2] = TRUE
    /\ game.currentState = "GAME_OVER"
    /\ \E i \in 1..Len(game.before), j \in 1..Len(obstacles) :
          /\ game.before[i].id = obstacles[j].id
          /\ Point(game.before[i].x, game.before[i].y) /= returned[3]
          /\ Point(obstacles[j].x, obstacles[j].y) = returned[3]

\* C12 second witness: the obstacle that was on the cell the head entered
\* moved off it in the same tick and the round goes on
C12_WitnessMovedOff ==
    /\ returned[1] = "Update"
    /\ returned[2] = FALSE
    /\ snake.alive
    /\ game.currentState = "PLAYING"
    /\ \E i \in 1..Len(game.before) :
          Point(game.before[i].x, game.before[i].y) = returned[3]


(***************************************************************************)
(* SpecPool: the thread pool of AsyncObstacleGenerator.  Its owner calls   *)
(* GenerateObstaclesWithCallback and StopThreadPool (the destructor); the  *)
(* pool threads run ThreadPoolWorker().                                    *)
(***************************************************************************)
\* what no step of the generator changes
outside_pool ==
    <<grid_width, grid_height, obstacles, moving_obstacle_speed, hist, tvars, mvars, gvars,
      avars>>

\* AsyncObstacleGenerator::AsyncObstacleGenerator -> StartThreadPool()
InitPool ==
    /\ \E g \in GridSizes : grid_width = g[1] /\ grid_height = g[2]
    /\ obstacles = << >>
    /\ moving_obstacle_speed = kDefaultSpeed
    /\ hist = HistInit
    /\ returned = NoReturn
    /\ ThreadInit
    /\ ManagerInit
    /\ GameInit
    /\ WorkInit
    /\ task_queue = << >>
    /\ stop_threads = FALSE
    /\ queue_mutex = 0
    /\ worker_threads = [w \in PoolThreads |-> PoolAt("start", 0)]
    /\ caller = CallerIdle
    /\ callbacks = [r \in Requests |-> NoCallback]

\* one pool thread moves to `at`; nothing else of the pool changes
PoolMoves(w, at) ==
    /\ worker_threads' = [worker_threads EXCEPT ![w] = at]
    /\ UNCHANGED <<task_queue, stop_threads, queue_mutex, caller, callbacks, returned>>
    /\ UNCHANGED outside_pool

\* active_threads.fetch_add(1)
PoolStart(w) ==
    /\ worker_threads[w].pc = "start"
    /\ PoolMoves(w, PoolAt("loop", 0))

\* while (!stop_threads.load()); after the loop active_threads.fetch_sub(1)
PoolLoop(w) ==
    /\ worker_threads[w].pc = "loop"
    /\ PoolMoves(w, IF stop_threads THEN PoolAt("exited", 0) ELSE PoolAt("lock", 0))

\* std::unique_lock<std::mutex> lock(queue_mutex), and the re-locking of
\* queue_mutex by a thread that was woken inside wait()
PoolLock(w) ==
    /\ worker_threads[w].pc \in {"lock", "woken"}
    /\ queue_mutex = 0
    /\ queue_mutex' = w
    /\ worker_threads' = [worker_threads EXCEPT ![w] = PoolAt("wait", 0)]
    /\ UNCHANGED <<task_queue, stop_threads, caller, callbacks, returned>>
    /\ UNCHANGED outside_pool

\* queue_condition.wait(lock, pred): the predicate is evaluated with the
\* mutex held
PoolWaitCheck(w) ==
    /\ worker_threads[w].pc = "wait"
    /\ PoolMoves(w, IF stop_threads \/ task_queue /= << >>
                    THEN PoolAt("take", 0) ELSE PoolAt("block", 0))

\* queue_condition.wait: the predicate was false, the thread releases the
\* mutex and sleeps until it is notified
PoolBlock(w) ==
    /\ worker_threads[w].pc = "block"
    /\ queue_mutex' = 0
    /\ worker_threads' = [worker_threads EXCEPT ![w] = PoolAt("blocked", 0)]
    /\ UNCHANGED <<task_queue, stop_threads, caller, callbacks, returned>>
    /\ UNCHANGED outside_pool

\* a spurious wakeup of condition_variable::wait
PoolSpuriousWakeup(w) ==
    /\ worker_threads[w].pc = "blocked"
    /\ PoolMoves(w, PoolAt("woken", 0))

\* if (stop_threads.load()) break; else the front task is taken; the mutex
\* is released at the end of the block
PoolTake(w) ==
    /\ worker_threads[w].pc = "take"
    /\ queue_mutex' = 0
    /\ IF stop_threads
       THEN /\ worker_threads' = [worker_threads EXCEPT ![w] = PoolAt("exited", 0)]
            /\ task_queue' = task_queue
       ELSE IF task_queue /= << >>
       THEN /\ worker_threads' = [worker_threads EXCEPT ![w] = PoolAt("run", Head(task_queue))]
            /\ task_queue' = Tail(task_queue)
       ELSE /\ worker_threads' = [worker_threads EXCEPT ![w] = PoolAt("loop", 0)]
            /\ task_queue' = task_queue
    /\ UNCHANGED <<stop_threads, caller, callbacks, returned>>
    /\ UNCHANGED outside_pool

\* the thread `by` runs the task of request req: GenerateObstaclesWorker and
\* callback(std::move(obstacles))
RunTask(cb, req, by) == [cb EXCEPT ![req].calls = @ + 1, ![req].by = by]

\* if (task) task();
PoolRun(w) ==
    /\ worker_threads[w].pc = "run"
    /\ callbacks' = RunTask(callbacks, worker_threads[w].task, w)
    /\ worker_threads' = [worker_threads EXCEPT ![w] = PoolAt("loop", 0)]
    /\ UNCHANGED <<task_queue, stop_threads, queue_mutex, caller, returned>>
    /\ UNCHANGED outside_pool

\* the steps a running pool thread takes by itself
PoolStep(w) ==
    \/ PoolStart(w)
    \/ PoolLoop(w)
    \/ PoolWaitCheck(w)
    \/ PoolBlock(w)
    \/ PoolTake(w)
    \/ PoolRun(w)

\* mutant: with no pool thread asleep to take it, the task is run at once on
\* the calling thread
EnqueueTaskInline(queue, cb, req) ==
    IF \E w \in PoolThreads : worker_threads[w].pc = "blocked"
    THEN [task_queue |-> Append(queue, req), callbacks |-> cb]
    ELSE [task_queue |-> queue, callbacks |-> RunTask(cb, req, 0)]

\* EnqueueTask: task_queue.emplace(task) under a lock_guard of queue_mutex
EnqueueTask(queue, cb, req) ==
    [task_queue |-> Append(queue, req), callbacks |-> cb]

\* the owner calls GenerateObstaclesWithCallback for its next request; it
\* makes no request once it has stopped the pool (StopThreadPool is called by
\* the destructor)
GenerateObstaclesWithCallback(req) ==
    /\ caller = CallerIdle
    /\ ~stop_threads
    /\ ~callbacks[req].accepted
    /\ \A r \in Requests : r < req => callbacks[r].accepted
    /\ callbacks' = [callbacks EXCEPT ![req].accepted = TRUE]
    /\ caller' = CallerAt("enqueue", "GenerateObstaclesWithCallback", 0, req)
    /\ returned' = NoReturn
    /\ UNCHANGED <<task_queue, stop_threads, queue_mutex, worker_threads>>
    /\ UNCHANGED outside_pool

\* EnqueueTask: the block that holds the lock_guard
CallerEnqueue ==
    /\ caller.pc = "enqueue"
    /\ queue_mutex = 0
    /\ LET done == EnqueueTask(task_queue, callbacks, caller.req)
       IN  /\ task_queue' = done.task_queue
           /\ callbacks' = done.callbacks
    /\ caller' = [caller EXCEPT !.pc = "notify_one"]
    /\ UNCHANGED <<stop_threads, queue_mutex, worker_threads, returned>>
    /\ UNCHANGED outside_pool

\* EnqueueTask: queue_condition.notify_one() wakes one sleeping thread, if
\* there is one; the call returns
CallerNotifyOne ==
    /\ caller.pc = "notify_one"
    /\ \/ \E w \in PoolThreads :
             /\ worker_threads[w].pc = "blocked"
             /\ worker_threads' = [worker_threads EXCEPT ![w] = PoolAt("woken", 0)]
       \/ /\ \A w \in PoolThreads : worker_threads[w].pc /= "blocked"
          /\ worker_threads' = worker_threads
    /\ caller' = CallerIdle
    /\ returned' = Outcome("GenerateObstaclesWithCallback", caller.req, 0, 0)
    /\ UNCHANGED <<task_queue, stop_threads, queue_mutex, callbacks>>
    /\ UNCHANGED outside_pool

\* StopThreadPool: stop_threads.store(true)
StopThreadPool ==
    /\ caller = CallerIdle
    /\ ~stop_threads
    /\ stop_threads' = TRUE
    /\ caller' = CallerAt("notify_all", "StopThreadPool", 0, 0)
    /\ returned' = NoReturn
    /\ UNCHANGED <<task_queue, queue_mutex, worker_threads, callbacks>>
    /\ UNCHANGED outside_pool

\* StopThreadPool: queue_condition.notify_all() wakes every sleeping thread
CallerNotifyAll ==
    /\ caller.pc = "notify_all"
    /\ worker_threads' =
          [w \in PoolThreads |->
              IF worker_threads[w].pc = "blocked" THEN PoolAt("woken", 0)
              ELSE worker_threads[w]]
    /\ caller' = [caller EXCEPT !.pc = "join", !.i = 1]
    /\ UNCHANGED <<task_queue, stop_threads, queue_mutex, callbacks, returned>>
    /\ UNCHANGED outside_pool

\* StopThreadPool: thread.join() of each pool thread in turn, then
\* worker_threads.clear() and the return
CallerJoin ==
    /\ caller.pc = "join"
    /\ IF caller.i > kThreadPoolSize
       THEN /\ worker_threads' = [w \in PoolThreads |-> PoolAt("none", 0)]
            /\ caller' = CallerIdle
            /\ returned' = Outcome("StopThreadPool", 0, 0, 0)
       ELSE /\ worker_threads[caller.i].pc = "exited"
            /\ worker_threads' = [worker_threads EXCEPT ![caller.i] = PoolAt("joined", 0)]
            /\ caller' = [caller EXCEPT !.i = @ + 1]
            /\ returned' = returned
    /\ UNCHANGED <<task_queue, stop_threads, queue_mutex, callbacks>>
    /\ UNCHANGED outside_pool

\* the steps the owner takes inside a call without waiting for queue_mutex
CallerStep == CallerNotifyOne \/ CallerNotifyAll \/ CallerJoin

NextPool ==
    \/ \E req \in Requests : GenerateObstaclesWithCallback(req)
    \/ CallerEnqueue
    \/ CallerNotifyOne
    \/ StopThreadPool
    \/ CallerNotifyAll
    \/ CallerJoin
    \/ \E w \in PoolThreads : PoolStart(w)
    \/ \E w \in PoolThreads : PoolLoop(w)
    \/ \E w \in PoolThreads : PoolLock(w)
    \/ \E w \in PoolThreads : PoolWaitCheck(w)
    \/ \E w \in PoolThreads : PoolBlock(w)
    \/ \E w \in PoolThreads : PoolSpuriousWakeup(w)
    \/ \E w \in PoolThreads : PoolTake(w)
    \/ \E w \in PoolThreads : PoolRun(w)

\* every thread that can take a step is scheduled, and a thread waiting for
\* queue_mutex gets it; a spurious wakeup is never owed
FairPool ==
    /\ \A w \in PoolThreads : WF_vars(PoolStep(w)) /\ SF_vars(PoolLock(w))
    /\ WF_vars(CallerStep)
    /\ SF_vars(CallerEnqueue)

SpecPool == InitPool /\ [][NextPool]_vars /\ FairPool

\* C15: StopThreadPool always terminates: every pool thread, wherever it is,
\* observes the stop request, exits and is joined, and the call returns.
C15_StopThreadPoolTerminates ==
    (caller.op = "StopThreadPool") ~>
        (caller = CallerIdle /\ returned = Outcome("StopThreadPool", 0, 0, 0))

\* C16: every call of GenerateObstaclesWithCallback is eventually answered:
\* the callback of an accepted request is invoked, exactly once.
C16_EveryRequestAnswered ==
    /\ \A r \in Requests : callbacks[r].accepted ~> (callbacks[r].calls = 1)
    /\ [](\A r \in Requests : callbacks[r].calls <= 1)

\* C17: GenerateObstaclesWithCallback never runs the generation or the
\* callback on the calling thread: the task of a request runs in a step of a
\* pool thread, which the owner takes no part in.
C17_CallbackOnPoolThread ==
    [][\A r \in Requests :
          callbacks'[r].calls /= callbacks[r].calls =>
             /\ callbacks'[r].by \in PoolThreads
             /\ worker_threads[callbacks'[r].by].pc = "run"
             /\ caller' = caller]_vars

\* C17 witness: the call has returned and a pool thread has run the task
C17_Witness ==
    /\ returned = Outcome("GenerateObstaclesWithCallback", 1, 0, 0)
    /\ caller = CallerIdle
    /\ callbacks[1].calls = 1
    /\ callbacks[1].by \in PoolThreads


(***************************************************************************)
(* SpecGen: one run of AsyncObstacleGenerator::GenerateObstaclesWorker     *)
(* (config), one step per sample drawn                                     *)
(***************************************************************************)
\* grids the generator is constructed with
GenGrids == {<<2, 2>>}
\* config.forbidden_positions
ForbiddenSets == {{}, {Point(0, 0)}, {Point(0, 0), Point(0, 1), Point(1, 0)}}
\* the configs passed to GenerateObstaclesWorker
Configs ==
    [fixed_count : {0, 1}, moving_count : {0, 1},
     forbidden_positions : ForbiddenSets, max_retries : 1..MaxRetries]
\* values of GenerateRandomLifetime(5.0f, 15.0f)
GenLifetimes == {10 * LifeScale}
\* values of GetRandomMovementPattern(config.preferred_patterns)
GenPatterns == {"ZIGZAG"}

\* random_x(engine), random_y(engine): uniform over 0..grid_width-1 and
\* 0..grid_height-1
GridCells(gw, gh) == {Point(x, y) : x \in 0..(gw - 1), y \in 0..(gh - 1)}

\* mutant: the forbidden positions are not looked up
IsPositionValidUnforbidden(pos, forbidden, gw, gh) ==
    InBounds(pos.x, pos.y, gw, gh)

\* AsyncObstacleGenerator::IsPositionValid
IsPositionValid(pos, forbidden, gw, gh) ==
    InBounds(pos.x, pos.y, gw, gh) /\ pos \notin forbidden

\* const int max_attempts = 100
kMaxAttempts == 100

\* while (attempts < kMaxAttempts && !IsPositionValid(position, forbidden)):
\* the draw number `attempts` came out as p and the loop goes round again
DrawnAgain(attempts, p, forbidden, gw, gh) ==
    attempts < kMaxAttempts /\ ~IsPositionValid(p, forbidden, gw, gh)

\* the positions the do-while of GenerateRandomPosition(forbidden) can return
\* at its draws number first..last, given that it reaches draw `first`; the
\* range of draws is halved, so that the evaluation nests log2(kMaxAttempts)
\* deep
RECURSIVE RandomPositionFrom(_, _, _, _, _)
RandomPositionFrom(first, last, forbidden, gw, gh) ==
    LET draws == GridCells(gw, gh)
        middle == (first + last) \div 2
    IN  IF first = last
        THEN {p \in draws : ~DrawnAgain(first, p, forbidden, gw, gh)}
        ELSE RandomPositionFrom(first, middle, forbidden, gw, gh)
             \cup (IF \A a \in first..middle :
                         \E p \in draws : DrawnAgain(a, p, forbidden, gw, gh)
                   THEN RandomPositionFrom(middle + 1, last, forbidden, gw, gh)
                   ELSE {})

\* AsyncObstacleGenerator::GenerateRandomPosition(forbidden)
GenerateRandomPosition(forbidden, gw, gh) ==
    RandomPositionFrom(1, kMaxAttempts, forbidden, gw, gh)

InitGen ==
    /\ \E g \in GenGrids : grid_width = g[1] /\ grid_height = g[2]
    /\ obstacles = << >>
    /\ moving_obstacle_speed = kDefaultSpeed
    /\ hist = HistInit
    /\ returned = NoReturn
    /\ ThreadInit
    /\ RestInit

\* what a step of the worker function leaves alone
outside_gen ==
    <<grid_width, grid_height, obstacles, moving_obstacle_speed, hist, tvars, mvars, gvars,
      pvars, validate, destroyed, hsvars, evars>>

\* GenerateObstaclesWorker(config): the two vectors are set up
GenerateObstaclesWorker(cfg) ==
    /\ gen.pc = "none"
    /\ gen' = [NoGeneration EXCEPT !.pc = "for", !.config = cfg,
                                   !.used_positions = cfg.forbidden_positions]
    /\ returned' = NoReturn
    /\ UNCHANGED outside_gen

\* the head of the two for loops, and the return behind the second
GenFor ==
    /\ gen.pc = "for"
    /\ LET count == IF gen.kind = "FIXED" THEN gen.config.fixed_count
                    ELSE gen.config.moving_count
       IN  IF gen.i < count
           THEN /\ gen' = [gen EXCEPT !.pc = "do", !.retries = 0, !.tried = << >>]
                /\ UNCHANGED returned
           ELSE IF gen.kind = "FIXED"
           THEN /\ gen' = [gen EXCEPT !.kind = "MOVING", !.i = 0]
                /\ UNCHANGED returned
           ELSE /\ gen' = [gen EXCEPT !.pc = "done"]
                /\ returned' = Outcome("GenerateObstaclesWorker", Len(gen.obstacles), 0, 0)
    /\ UNCHANGED outside_gen

\* one pass of the do-while: a sample is drawn, retries is incremented and
\* the loop condition is evaluated
GenDo ==
    /\ gen.pc = "do"
    /\ \E p \in GenerateRandomPosition(gen.used_positions, grid_width, grid_height) :
          gen' = [gen EXCEPT
                    !.position = p,
                    !.retries = @ + 1,
                    !.tried = Append(@, p),
                    !.pc = IF /\ gen.retries + 1 < gen.config.max_retries
                              /\ ~IsPositionValid(p, gen.used_positions,
                                                  grid_width, grid_height)
                           THEN "do" ELSE "if"]
    /\ UNCHANGED returned
    /\ UNCHANGED outside_gen

\* if (retries < config.max_retries): the obstacle is made and recorded; then
\* the loop counter is incremented
GenIf(lifetime, pattern) ==
    /\ gen.pc = "if"
    /\ LET placed == gen.retries < gen.config.max_retries
           id == Len(gen.obstacles) + 1
           obstacle == IF gen.kind = "FIXED"
                       THEN FixedObstacle(id, gen.position.x, gen.position.y, lifetime)
                       ELSE MovingObstacle(id, gen.position.x, gen.position.y,
                                           pattern, lifetime)
       IN  gen' = [gen EXCEPT
                     !.pc = "for",
                     !.i = @ + 1,
                     !.done = @ + 1,
                     !.last = [tried |-> gen.tried, used |-> gen.used_positions,
                               placed |-> placed, position |-> gen.position],
                     !.used_positions = IF placed THEN @ \cup {gen.position} ELSE @,
                     !.obstacles = IF placed THEN Append(@, obstacle) ELSE @]
    /\ UNCHANGED returned
    /\ UNCHANGED outside_gen

NextGen ==
    \/ \E cfg \in Configs : GenerateObstaclesWorker(cfg)
    \/ GenFor
    \/ GenDo
    \/ \E l \in GenLifetimes, p \in GenPatterns : GenIf(l, p)

SpecGen == InitGen /\ [][NextGen]_vars

\* the samples of the obstacle handled last that were in-bounds, not
\* forbidden and not used in the batch when they were drawn
ValidSamples ==
    {k \in 1..Len(gen.last.tried) :
        /\ 0 <= gen.last.tried[k].x /\ gen.last.tried[k].x < grid_width
        /\ 0 <= gen.last.tried[k].y /\ gen.last.tried[k].y < grid_height
        /\ gen.last.tried[k] \notin gen.last.used}

\* C18: for each requested obstacle the batch generator samples up to
\* max_retries cells and places the obstacle at the first sample that is
\* in-bounds, not forbidden and not already used in the batch; an obstacle is
\* skipped only when all max_retries samples were invalid, and a skipped
\* obstacle does not keep the remaining requested obstacles from being
\* generated and returned.
C18_PlacedAtFirstValidSample ==
    /\ gen.done > 0 =>
          /\ Len(gen.last.tried) <= gen.config.max_retries
          /\ ValidSamples /= {} =>
                /\ gen.last.placed
                /\ \E k \in ValidSamples :
                      /\ \A j \in ValidSamples : k <= j
                      /\ gen.last.position = gen.last.tried[k]
          /\ ~gen.last.placed =>
                /\ Len(gen.last.tried) = gen.config.max_retries
                /\ ValidSamples = {}
    /\ gen.pc = "done" => gen.done = gen.config.fixed_count + gen.config.moving_count

\* the cells of a batch
BatchCells(batch) == {Point(batch[i].x, batch[i].y) : i \in 1..Len(batch)}

\* C19: every batch returned by the generator contains only obstacles whose
\* cells are in-bounds, absent from the forbidden set and pairwise distinct,
\* and at most fixed_count static and at most moving_count moving obstacles.
C19_BatchWellFormed ==
    gen.pc = "done" =>
        LET batch == gen.obstacles
        IN  /\ \A i \in 1..Len(batch) :
                  /\ 0 <= batch[i].x /\ batch[i].x < grid_width
                  /\ 0 <= batch[i].y /\ batch[i].y < grid_height
                  /\ Point(batch[i].x, batch[i].y) \notin gen.config.forbidden_positions
            /\ Cardinality(BatchCells(batch)) = Len(batch)
            /\ Cardinality({i \in 1..Len(batch) : batch[i].type = "FIXED"})
                  <= gen.config.fixed_count
            /\ Cardinality({i \in 1..Len(batch) : batch[i].type = "MOVING"})
                  <= gen.config.moving_count

\* C19 witness: a returned batch of one static and one moving obstacle, made
\* with a forbidden cell, the moving one placed after a rejected sample
C19_Witness ==
    /\ gen.pc = "done"
    /\ returned = Outcome("GenerateObstaclesWorker", 2, 0, 0)
    /\ gen.obstacles[1].type = "FIXED"
    /\ gen.obstacles[2].type = "MOVING"
    /\ gen.config.forbidden_positions /= {}
    /\ gen.last.placed
    /\ Len(gen.last.tried) = 2


(***************************************************************************)
(* SpecValidate: AsyncObstacleGenerator::ValidateObstaclePlacementAsync,   *)
(* the arguments drawn at the call                                         *)
(***************************************************************************)
\* candidate positions, body segments and food cells passed to the helper
ValidateCells == {Point(0, 0), Point(1, 0), Point(1, 1), Point(3, 3)}
ValidatePositions ==
    {<< >>} \cup {<<a>> : a \in ValidateCells}
            \cup {<<a, b>> : a \in ValidateCells, b \in {Point(0, 0), Point(3, 3)}}
ValidateBodies == {<< >>, <<Point(0, 0)>>, <<Point(3, 2), Point(3, 3)>>}
ValidateFoods == {Point(1, 0), Point(2, 2)}
\* snake.head_x, snake.head_y in units of 1/HeadScale of a cell
ValidateHeads == {<<0, 0>>, <<1, 1>>, <<6, 7>>}

\* std::abs on int
Abs(n) == IF n < 0 THEN 0 - n ELSE n

\* mutant: only the head is measured, the body segments are not
IsPositionNearSnakeHeadOnly(pos, s, min_distance) ==
    Abs(pos.x - HeadCell(s).x) + Abs(pos.y - HeadCell(s).y) < min_distance

\* AsyncObstacleGenerator::IsPositionNearSnake
IsPositionNearSnake(pos, s, min_distance) ==
    \/ Abs(pos.x - HeadCell(s).x) + Abs(pos.y - HeadCell(s).y) < min_distance
    \/ \E k \in 1..Len(s.body) :
          Abs(pos.x - s.body[k].x) + Abs(pos.y - s.body[k].y) < min_distance

\* the body of the loop of ValidatePositionsWorker: pos makes it return false
PositionConflicts(pos, s, food) ==
    \/ pos.x = food.x /\ pos.y = food.y
    \/ pos.x = HeadCell(s).x /\ pos.y = HeadCell(s).y
    \/ \E k \in 1..Len(s.body) : pos.x = s.body[k].x /\ pos.y = s.body[k].y
    \/ IsPositionNearSnake(pos, s, 2)

\* AsyncObstacleGenerator::ValidatePositionsWorker
ValidatePositionsWorker(positions, s, food) ==
    \A i \in 1..Len(positions) : ~PositionConflicts(positions[i], s, food)

InitValidate ==
    /\ \E g \in GenGrids : grid_width = g[1] /\ grid_height = g[2]
    /\ obstacles = << >>
    /\ moving_obstacle_speed = kDefaultSpeed
    /\ hist = HistInit
    /\ returned = NoReturn
    /\ ThreadInit
    /\ ManagerInit
    /\ GameInit
    /\ PoolInit
    /\ gen = NoGeneration
    /\ validate = NoValidation
    /\ destroyed = NoneDestroyed
    /\ ScoresInit
    /\ EngineInit

\* ValidateObstaclePlacementAsync(positions, snake, food): the task captures
\* copies of its arguments
ValidateObstaclePlacementAsync(positions, head, body, food) ==
    /\ validate.pc = "none"
    /\ validate' = [pc |-> "async", positions |-> positions,
                    snake |-> [head_x |-> head[1], head_y |-> head[2], body |-> body],
                    food |-> food, result |-> FALSE]
    /\ returned' = NoReturn
    /\ UNCHANGED <<grid_width, grid_height, obstacles, moving_obstacle_speed, hist,
                   mvars, gvars, pvars, gen, destroyed, hsvars,
                   evars>>
    /\ UNCHANGED tvars

\* the task runs ValidatePositionsWorker and the future gets its value
ValidateRun ==
    /\ validate.pc = "async"
    /\ validate' = [validate EXCEPT
                      !.pc = "ready",
                      !.result = ValidatePositionsWorker(validate.positions,
                                                         validate.snake, validate.food)]
    /\ returned' = Outcome("ValidateObstaclePlacementAsync", validate'.result, 0, 0)
    /\ UNCHANGED <<grid_width, grid_height, obstacles, moving_obstacle_speed, hist,
                   mvars, gvars, pvars, gen, destroyed, hsvars,
                   evars>>
    /\ UNCHANGED tvars

NextValidate ==
    \/ \E positions \in ValidatePositions, head \in ValidateHeads,
          body \in ValidateBodies, food \in ValidateFoods :
          ValidateObstaclePlacementAsync(positions, head, body, food)
    \/ ValidateRun

SpecValidate == InitValidate /\ [][NextValidate]_vars

\* the cells of the candidates, of the head, of the body and of the food
CandidateCells == {validate.positions[i] : i \in 1..Len(validate.positions)}
BodyCells == {validate.snake.body[k] : k \in 1..Len(validate.snake.body)}
HeadOf == Point(validate.snake.head_x \div HeadScale, validate.snake.head_y \div HeadScale)

\* C20: the validation helper yields true if and only if all candidates are
\* clear, i.e. no candidate position equals the player's head cell, any body
\* cell, or the food cell.
C20_TrueIffAllClear ==
    validate.pc = "ready" =>
        (validate.result <=>
            \A c \in CandidateCells :
                c /= HeadOf /\ c \notin BodyCells /\ c /= validate.food)

\* Manhattan distance between two cells
Manhattan(a, b) ==
    (IF a.x >= b.x THEN a.x - b.x ELSE b.x - a.x)
    + (IF a.y >= b.y THEN a.y - b.y ELSE b.y - a.y)

\* C20 as amended: the validation helper yields true if and only if no
\* candidate position equals the food cell and no candidate lies within a
\* Manhattan distance of less than 2 of the player's head cell or of any body
\* cell (so neither on such a cell nor next to it).
C20_TrueIffClearWithMargin ==
    validate.pc = "ready" =>
        (validate.result <=>
            \A c \in CandidateCells :
                /\ c /= validate.food
                /\ Manhattan(c, HeadOf) >= 2
                /\ \A b \in BodyCells : Manhattan(c, b) >= 2)

\* C20 witness: the helper answered false for a single candidate that is on
\* no head, body or food cell but next to a body segment
C20_Witness ==
    /\ validate.pc = "ready"
    /\ returned = Outcome("ValidateObstaclePlacementAsync", FALSE, 0, 0)
    /\ Len(validate.positions) = 1
    /\ validate.positions[1] /= HeadOf
    /\ validate.positions[1] \notin BodyCells
    /\ validate.positions[1] /= validate.food
    /\ Manhattan(validate.positions[1], HeadOf) >= 2
    /\ \E b \in BodyCells : Manhattan(validate.positions[1], b) = 1

\* C20 second witness: the helper answered true for two candidates with a
\* snake that has a body
C20_WitnessAccepted ==
    /\ validate.pc = "ready"
    /\ returned = Outcome("ValidateObstaclePlacementAsync", TRUE, 0, 0)
    /\ Len(validate.positions) = 2
    /\ validate.snake.body /= << >>


(***************************************************************************)
(* SpecDecay: one obstacle, constructed with a lifetime and decremented    *)
(* with DecrementLifetime(delta_time), no other thread involved            *)
(***************************************************************************)
\* lifetimes the obstacle is constructed with: 1.0f and 3.0f
DecayLifetimes == {F32_1_0, 3 * LifeScale}
\* delta_time passed to DecrementLifetime: 0.3f, 0.5f, 0.6f and 2^-27
DecayDeltas == {F32_0_3, F32_0_5, F32_0_6, 1}

InitDecay ==
    /\ \E g \in GridSizes : grid_width = g[1] /\ grid_height = g[2]
    /\ \E l \in DecayLifetimes :
          obstacles = <<FixedObstacle(1, 0, 0, l)>>
    /\ moving_obstacle_speed = kDefaultSpeed
    /\ hist = [HistInit EXCEPT !.ids = 1]
    /\ returned = NoReturn
    /\ ThreadInit
    /\ RestInit

\* obstacle.DecrementLifetime(delta_time)
ObstacleDecrementLifetime(delta_time) ==
    /\ hist.ticks < MaxDecays
    /\ obstacles' = <<DecrementLifetime(obstacles[1], delta_time)>>
    /\ hist' = [hist EXCEPT
                  !.ticks = @ + 1,
                  !.decremented = Min(@ + delta_time, obstacles[1].lifetime_seconds)]
    /\ returned' = Outcome("DecrementLifetime", delta_time, 0, 0)
    /\ UNCHANGED <<xvars, grid_width, grid_height, moving_obstacle_speed>>
    /\ UNCHANGED tvars

\* obstacle.IsExpired()
ObstacleIsExpired ==
    /\ returned' = Outcome("IsExpired", IsExpired(obstacles[1]), 0, 0)
    /\ UNCHANGED <<xvars, grid_width, grid_height, obstacles, moving_obstacle_speed, hist>>
    /\ UNCHANGED tvars

NextDecay ==
    \/ \E d \in DecayDeltas : ObstacleDecrementLifetime(d)
    \/ ObstacleIsExpired

SpecDecay == InitDecay /\ [][NextDecay]_vars

\* C23: an obstacle constructed with lifetime L reports IsExpired() == true
\* once the decrements applied to it sum to at least L; with L = 1.0 it is not
\* expired after a decrement of 0.5 and is expired after a further one of 0.6.
C23_ExpiredOnceDecrementsReachLifetime ==
    returned[1] = "IsExpired" =>
        /\ hist.decremented >= obstacles[1].lifetime_seconds => returned[2] = TRUE
        /\ (/\ obstacles[1].lifetime_seconds = F32_1_0
            /\ hist.ticks = 1
            /\ hist.decremented = F32_0_5) => returned[2] = FALSE

\* C23, the example of the claim alone: lifetime 1.0, decrements 0.5 and 0.6
C23_ExampleExpired ==
    /\ returned = Outcome("IsExpired", TRUE, 0, 0)
    /\ obstacles[1].lifetime_seconds = F32_1_0
    /\ hist.ticks = 2
    /\ obstacles[1].remaining_lifetime = 0

\* C24: for an obstacle with remaining lifetime L and any delta > 0, a
\* DecrementLifetime(delta) leaves the remaining lifetime equal to
\* max(0, L - delta): strictly smaller than L when L > 0, still 0 when
\* L = 0, and never negative.
C24_DecrementIsFlooredDifference ==
    [][returned'[1] = "DecrementLifetime" =>
          LET L == obstacles[1].remaining_lifetime
              after == obstacles'[1].remaining_lifetime
              delta == returned'[2]
          IN  /\ after = (IF L - delta > 0 THEN L - delta ELSE 0)
              /\ L > 0 => after < L
              /\ L = 0 => after = 0
              /\ after >= 0
      ]_vars

\* C24 as amended: DecrementLifetime(delta) leaves the remaining lifetime
\* equal to max(0, L - delta) rounded to single precision: never larger than
\* L, never negative, still 0 when L = 0, within half a unit in the last
\* place of the exact difference, and strictly smaller than L when L > 0 and
\* delta is at least one unit in the last place of L.
C24_DecrementIsRoundedFlooredDifference ==
    [][returned'[1] = "DecrementLifetime" =>
          LET L == obstacles[1].remaining_lifetime
              after == obstacles'[1].remaining_lifetime
              delta == returned'[2]
              exact == IF L - delta > 0 THEN L - delta ELSE 0
          IN  /\ 2 * (after - exact) <= F32Ulp(exact)
              /\ 2 * (exact - after) <= F32Ulp(exact)
              /\ after <= L
              /\ (L > 0 /\ delta >= F32Ulp(L)) => after < L
              /\ L = 0 => after = 0
              /\ after >= 0
      ]_vars

\* C24 witness: a decrement of 2^-27 has just left a lifetime of 1.0 as it was
C24_Witness ==
    /\ returned = Outcome("DecrementLifetime", 1, 0, 0)
    /\ hist.ticks = 1
    /\ obstacles[1].remaining_lifetime = F32_1_0

\* C24 second witness: a decrement has just been floored at zero
C24_WitnessFloored ==
    /\ returned[1] = "DecrementLifetime"
    /\ obstacles[1].remaining_lifetime = 0
    /\ hist.decremented = obstacles[1].lifetime_seconds
    /\ hist.ticks = 2


(***************************************************************************)
(* Further claims on the base ObstacleManager (Spec)                       *)
(***************************************************************************)
\* C25: ClearExpiredObstacles is idempotent: called twice in a row with no
\* lifetime decrement in between, the second call removes nothing and leaves
\* the collection as the first call left it.
C25_ClearExpiredIdempotent ==
    [][(ClearExpiredObstacles /\ returned[1] = "ClearExpiredObstacles") =>
          /\ obstacles' = obstacles
          /\ returned' = Outcome("ClearExpiredObstacles", 0, 0, 0)
      ]_vars

\* C25 witness: a sweep has just removed nothing from a collection whose
\* first obstacle an earlier sweep erased and whose second obstacle is alive
C25_Witness ==
    /\ returned = Outcome("ClearExpiredObstacles", 0, 0, 0)
    /\ hist.ids = 2
    /\ Len(obstacles) = 1
    /\ obstacles[1].id = 2
    /\ ~IsExpired(obstacles[1])

(***************************************************************************)
(* SpecSpawn: an empty manager on a 2x2 grid and SpawnRandomObstacle()     *)
(* calls, no movement update in between                                    *)
(***************************************************************************)
SpawnGrids == {<<2, 2>>}
\* values of GetRandomMovementPattern() in this specification
SpawnPatterns == {"ZIGZAG"}

InitSpawn ==
    /\ \E g \in SpawnGrids : grid_width = g[1] /\ grid_height = g[2]
    /\ obstacles = << >>
    /\ moving_obstacle_speed = kDefaultSpeed
    /\ hist = HistInit
    /\ returned = NoReturn
    /\ ThreadInit
    /\ RestInit

\* SpawnRandomObstacle() with its three random draws
SpawnOnGrid(pos, fixed, pattern) ==
    /\ obstacles' = SpawnRandom(obstacles, hist.ids + 1, pos, fixed, pattern,
                                moving_obstacle_speed, grid_width, grid_height)
    /\ hist' = Added(obstacles')
    /\ returned' = Outcome("SpawnRandomObstacle", Len(obstacles') - Len(obstacles),
                           pos.x, pos.y)
    /\ UNCHANGED <<xvars, grid_width, grid_height, moving_obstacle_speed>>
    /\ UNCHANGED tvars

\* GetObstacleCount()
GetObstacleCount ==
    /\ returned' = Outcome("GetObstacleCount", Len(obstacles), 0, 0)
    /\ UNCHANGED <<xvars, grid_width, grid_height, obstacles, moving_obstacle_speed, hist>>
    /\ UNCHANGED tvars

NextSpawn ==
    \/ \E x \in 0..(grid_width - 1), y \in 0..(grid_height - 1), fixed \in BOOLEAN,
          p \in SpawnPatterns : SpawnOnGrid(Point(x, y), fixed, p)
    \/ GetObstacleCount

SpecSpawn == InitSpawn /\ [][NextSpawn]_vars

\* C26: from an empty manager on a 2x2 grid, after any number of
\* SpawnRandomObstacle() calls the obstacle count is at most 4 and no two
\* obstacles occupy the same cell; each call adds at most one obstacle and
\* adds none when the sampled cell is occupied.
C26_SpawnWithinCapacity ==
    [][/\ Len(obstacles') <= 4
       /\ \A i, j \in 1..Len(obstacles') :
             i /= j => ~(obstacles'[i].x = obstacles'[j].x /\ obstacles'[i].y = obstacles'[j].y)
       /\ returned'[1] = "GetObstacleCount" => returned'[2] <= 4
       /\ returned'[1] = "SpawnRandomObstacle" =>
             /\ Len(obstacles') - Len(obstacles) \in {0, 1}
             /\ SubSeq(obstacles', 1, Len(obstacles)) = obstacles
             /\ (\E i \in 1..Len(obstacles) :
                    obstacles[i].x = returned'[3].x /\ obstacles[i].y = returned'[3].y)
                => obstacles' = obstacles
      ]_vars

\* C26 witness: the grid is full and a further spawn has just added nothing
C26_Witness ==
    /\ Len(obstacles) = 4
    /\ returned[1] = "SpawnRandomObstacle"
    /\ returned[2] = 0
    /\ \E i \in 1..4 : obstacles[i].type = "MOVING"


(***************************************************************************)
(* SpecTimer: ObstacleManager::ShouldSpawnObstacle(delta_time), called     *)
(* frame after frame, the spawn rate set by SetDifficultyLevel             *)
(***************************************************************************)
\* the spawn timer and the spawn interval are held in units of 2^-29
TimerScale == 2^29
\* frame_delta_time = 1.0f / 60.0f, in units of 2^-29
kFrameDelta == 8947849
\* delta_time passed to ShouldSpawnObstacle: the frame time and 0.5f
TimerDeltas == {kFrameDelta, TimerScale \div 2}
\* levels passed to SetDifficultyLevel
TimerLevels == {1}

\* n more quotient bits of r / d by long division: <<quotient, remainder>>
RECURSIVE DivBits(_, _, _, _)
DivBits(q, r, d, n) ==
    IF n = 0 THEN <<q, r>>
    ELSE IF 2 * r >= d THEN DivBits(2 * q + 1, 2 * r - d, d, n - 1)
         ELSE DivBits(2 * q, 2 * r, d, n - 1)

\* 1.0f / spawn_rate in single precision, spawn_rate in units of 2^-30 and
\* the quotient in units of 2^-29: 26 fraction bits and a sticky bit, rounded
SpawnInterval(rate) ==
    LET one == RateScale
        qr == DivBits(one \div rate, one % rate, rate, 26)
        sticky == IF qr[2] > 0 THEN 1 ELSE 0
    IN  4 * F32Round(2 * qr[1] + sticky)

\* mutant: the timer has to pass the interval, reaching it is not enough
ShouldSpawnPast(timer, interval) == timer > interval

\* if (spawn_timer >= spawn_interval)
ShouldSpawn(timer, interval) == timer >= interval

InitTimer ==
    /\ \E g \in GridSizes : grid_width = g[1] /\ grid_height = g[2]
    /\ obstacles = << >>
    /\ moving_obstacle_speed = kDefaultSpeed
    /\ hist = HistInit
    /\ returned = NoReturn
    /\ ThreadInit
    /\ RestInit

ShouldSpawnObstacle(delta_time) ==
    LET timer == F32Add(spawn_timer, delta_time)
        spawn_interval == SpawnInterval(spawn_rate)
        result == ShouldSpawn(timer, spawn_interval)
    IN  /\ spawn_timer' = IF result THEN 0 ELSE timer
        /\ hist' = [hist EXCEPT !.elapsed = IF result THEN 0 ELSE @ + delta_time]
        /\ returned' = Outcome("ShouldSpawnObstacle", result, delta_time, 0)
        /\ UNCHANGED <<grid_width, grid_height, obstacles, moving_obstacle_speed,
                       difficulty_level, spawn_rate, gvars, pvars, avars>>
        /\ UNCHANGED tvars

\* SetDifficultyLevel(level) between two frames
TimerSetDifficultyLevel(level) ==
    /\ hist.ids < MaxLevelings
    /\ difficulty_level' = level
    /\ spawn_rate' = LevelRate(level)
    /\ moving_obstacle_speed' = LevelSpeed(level)
    /\ hist' = [hist EXCEPT !.ids = @ + 1]
    /\ returned' = Outcome("SetDifficultyLevel", level, 0, 0)
    /\ UNCHANGED <<grid_width, grid_height, obstacles, spawn_timer, gvars, pvars, avars>>
    /\ UNCHANGED tvars

NextTimer ==
    \/ \E d \in TimerDeltas : ShouldSpawnObstacle(d)
    \/ \E l \in TimerLevels : TimerSetDifficultyLevel(l)

SpecTimer == InitTimer /\ [][NextTimer]_vars

\* C27: ShouldSpawnObstacle(delta) adds delta to the spawn timer and returns
\* true exactly on those calls at which the time accumulated since the last
\* true result (or since construction) has reached 1/spawn_rate, resetting
\* the timer to zero on those calls; on every other call it returns false and
\* keeps the accumulated time.
C27_TrueWhenAccumulatedTimeReachesInterval ==
    [][returned'[1] = "ShouldSpawnObstacle" =>
          LET accumulated == hist.elapsed + returned'[3].x
          IN  /\ returned'[2] <=> accumulated >= SpawnInterval(spawn_rate)
              /\ returned'[2] => spawn_timer' = 0
              /\ ~returned'[2] => spawn_timer' >= spawn_timer
      ]_vars

\* C27 as amended: ShouldSpawnObstacle(delta) adds delta to the spawn timer
\* in single precision and returns true exactly on those calls at which the
\* timer, the rounded running sum of the deltas since the last true result
\* (or since construction), has reached the single-precision 1/spawn_rate,
\* resetting the timer to zero on those calls; on every other call it returns
\* false and keeps the rounded sum.
C27_TrueWhenTimerReachesInterval ==
    [][returned'[1] = "ShouldSpawnObstacle" =>
          LET sum == F32Round(spawn_timer + returned'[3].x)
          IN  /\ returned'[2] <=> sum >= SpawnInterval(spawn_rate)
              /\ returned'[2] => spawn_timer' = 0
              /\ ~returned'[2] => spawn_timer' = sum
      ]_vars

\* C27 witness: at the default rate the 120th frame has just been answered
\* false although the frame times passed since construction sum to more than
\* the interval of 2.0: the timer holds less
C27_Witness ==
    /\ returned = Outcome("ShouldSpawnObstacle", FALSE, kFrameDelta, 0)
    /\ spawn_rate = kDefaultSpawnRate
    /\ hist.elapsed = 120 * kFrameDelta
    /\ hist.elapsed >= SpawnInterval(spawn_rate)
    /\ spawn_timer < SpawnInterval(spawn_rate)

\* C27 second witness: four deltas of 0.5 have just reached the interval of
\* 2.0 exactly and the call was answered true
C27_WitnessReached ==
    /\ returned = Outcome("ShouldSpawnObstacle", TRUE, TimerScale \div 2, 0)
    /\ spawn_rate = kDefaultSpawnRate
    /\ spawn_timer = 0

\* with the deltas of this specification a true result is at most one frame
\* late and never early
C27_AtMostOneFrameLate ==
    [][returned'[1] = "ShouldSpawnObstacle" =>
          LET accumulated == hist.elapsed + returned'[3].x
          IN  /\ returned'[2] => accumulated >= SpawnInterval(spawn_rate)
              /\ accumulated >= SpawnInterval(spawn_rate) + kFrameDelta => returned'[2]
      ]_vars

\* the fields of obstacle o that place and move it
PositionAxis(o) ==
    <<o.id, o.type, o.x, o.y, o.pattern, o.speed, o.direction, o.movement_counter>>

\* C30: UpdateObstacleMovement changes no obstacle's remaining lifetime and
\* leaves every Static obstacle as it was; UpdateObstacleLifetimes, which calls
\* DecrementLifetime on every obstacle, changes nothing that places or moves
\* an obstacle; neither adds or removes an obstacle
C30_PositionAndLifetimeIndependent ==
    [][ /\ UpdateObstacleMovement =>
               /\ Len(obstacles') = Len(obstacles)
               /\ \A i \in 1..Len(obstacles) :
                     /\ obstacles'[i].remaining_lifetime = obstacles[i].remaining_lifetime
                     /\ obstacles[i].type = "FIXED" => obstacles'[i] = obstacles[i]
        /\ (\E d \in Deltas : UpdateObstacleLifetimes(d)) =>
               /\ Len(obstacles') = Len(obstacles)
               /\ \A i \in 1..Len(obstacles) :
                     PositionAxis(obstacles'[i]) = PositionAxis(obstacles[i]) ]_vars

\* a Moving obstacle that was updated and aged, beside a Static obstacle that
\* aged
C30_Witness ==
    \E i, j \in 1..Len(obstacles) :
        /\ obstacles[i].type = "MOVING"
        /\ obstacles[i].movement_counter > 0
        /\ obstacles[i].remaining_lifetime < obstacles[i].lifetime_seconds
        /\ obstacles[j].type = "FIXED"
        /\ obstacles[j].remaining_lifetime < obstacles[j].lifetime_seconds

\* the same of the threaded manager, under SpecT: its UpdateObstacleMovement
\* writes no lifetime and no Static obstacle, the worker's decay pass writes
\* nothing but the remaining lifetime
C30_WorkerAndMovementIndependent ==
    [][ /\ SimUpdateObstacleMovement =>
               /\ Len(obstacles') = Len(obstacles)
               /\ \A i \in 1..Len(obstacles) :
                     /\ obstacles'[i].remaining_lifetime = obstacles[i].remaining_lifetime
                     /\ obstacles[i].type = "FIXED" => obstacles'[i] = obstacles[i]
        /\ WorkerStore =>
               /\ Len(obstacles') = Len(obstacles)
               /\ \A i \in 1..Len(obstacles) :
                     PositionAxis(obstacles'[i]) = PositionAxis(obstacles[i]) ]_vars

\* C29: an Update of a random-walk obstacle leaves it where it is or moves it
\* exactly one cell in a cardinal direction; it never carries it across the
\* grid to the opposite edge
C29_RandomWalkStepsOneCell ==
    [][(MoveUpdate /\ obstacles[1].pattern = "RANDOM_WALK") =>
          Abs(obstacles'[1].x - obstacles[1].x)
             + Abs(obstacles'[1].y - obstacles[1].y) <= 1]_vars

\* the same away from the edges: there a random-walk Update moves the
\* obstacle by static_cast<int>(speed) cells in one cardinal direction, on
\* every tick
C29_RandomWalkInsideGrid ==
    [][(/\ MoveUpdate
        /\ obstacles[1].pattern = "RANDOM_WALK"
        /\ obstacles[1].x \in 1..(grid_width - 2)
        /\ obstacles[1].y \in 1..(grid_height - 2)
        /\ obstacles[1].speed = SpeedOne) =>
          Abs(obstacles'[1].x - obstacles[1].x)
             + Abs(obstacles'[1].y - obstacles[1].y) = 1]_vars

\* the remaining lifetimes of the collection, in order
RemainingLifetimes == [k \in 1..Len(obstacles) |-> obstacles[k].remaining_lifetime]

\* C28: in every wake cycle the worker's pass starts at the first obstacle,
\* applies DecrementLifetime(0.1f) to one obstacle after the other and ends
\* behind the last; nothing else adds, removes or ages an obstacle during the
\* pass, so every obstacle is aged exactly once per cycle by 0.1 s; a sweep is
\* started exactly on the cycles whose count is a multiple of 50
C28_EveryWakeDecaysOnceAndSweepsEvery50 ==
    [][ /\ WorkerLockShared => lifetime_thread'.i = 1
        /\ WorkerStore =>
               /\ lifetime_thread.i \in 1..Len(obstacles)
               /\ lifetime_thread'.i = lifetime_thread.i + 1
               /\ Len(obstacles') = Len(obstacles)
               /\ \A k \in 1..Len(obstacles) :
                     obstacles'[k].remaining_lifetime =
                        IF k = lifetime_thread.i
                        THEN F32Max(0, F32Sub(obstacles[k].remaining_lifetime,
                                              kWorkerDelta))
                        ELSE obstacles[k].remaining_lifetime
        /\ (lifetime_thread.pc \in {"decay", "store"} /\ ~WorkerStore) =>
               RemainingLifetimes' = RemainingLifetimes
        /\ WorkerUnlock => lifetime_thread.i = Len(obstacles) + 1
        /\ WorkerCount =>
               lifetime_updates_count' = (lifetime_updates_count + 1) % SweepPeriod
        /\ (cleanup_future = "none" /\ cleanup_future' /= "none") <=>
               (WorkerCount /\ lifetime_updates_count = SweepPeriod - 1) ]_vars

\* the 50th wake cycle has started a sweep over a collection whose obstacle
\* the worker has aged
C28_Witness ==
    /\ cleanup_future = "lock"
    /\ lifetime_updates_count = 0
    /\ \E k \in 1..Len(obstacles) :
          /\ obstacles[k].decays >= 1
          /\ obstacles[k].remaining_lifetime < obstacles[k].lifetime_seconds

(***************************************************************************)
(* SpecRestart: the simulation thread fills the collection, then starts    *)
(* and stops the worker again and again; the worker threads it creates are *)
(* counted.                                                                *)
(***************************************************************************)
\* StartLifetimeThread(), the threads it creates counted
CountedStartLifetimeThread ==
    /\ thread_running \/ hist.starts < MaxStarts
    /\ StartLifetimeThreadAs([hist EXCEPT !.started = TRUE, !.starts = @ + 1])

NextRestart ==
    \/ CountedStartLifetimeThread
    \/ StopLifetimeThread
    \/ StopJoin
    \/ Fresh /\ \E c \in ThreadCells, l \in ThreadLifetimes :
                   AddFixedObstacle(c.x, c.y, l)
    \/ WorkerLoop
    \/ WorkerLockShared
    \/ WorkerLoad
    \/ WorkerStore
    \/ WorkerUnlock
    \/ WorkerCount
    \/ SweepLockUnique
    \/ SweepRun
    \/ WorkerFutureDone
    \/ WorkerWaitCheck
    \/ WorkerBlock
    \/ WorkerWaitFor

SpecRestart == Init /\ [][NextRestart]_vars

\* everything of the manager but the outcome of the last call
RestartState ==
    <<obstacles, hist, obstacles_mutex, shutdown_requested, thread_running,
      lifetime_updates_count, lifetime_thread, cleanup_future, sim, crashed>>

\* C22: StartLifetimeThread while a worker runs changes nothing and
\* StopLifetimeThread while none runs changes nothing; a thread is created
\* only when no worker thread exists, so there is never more than one; a
\* Start that follows a Stop leaves a worker at the head of its loop with the
\* shutdown request withdrawn, and that worker goes on to a decay pass
C22_StartStopIdempotent ==
    [][ /\ (CountedStartLifetimeThread /\ thread_running) => UNCHANGED RestartState
        /\ (StopLifetimeThread /\ ~thread_running) => UNCHANGED RestartState
        /\ (CountedStartLifetimeThread /\ ~thread_running) =>
               /\ lifetime_thread = NoWorker
               /\ lifetime_thread' = WorkerAt("loop", 0, 0)
               /\ thread_running' /\ ~shutdown_requested'
        /\ (WorkerLoop /\ thread_running /\ ~shutdown_requested) =>
               lifetime_thread'.pc = "decay_lock" ]_vars

\* the worker created by the second Start, after a Stop that ended the first
\* before it made any pass, is inside a decay pass of its own
C22_Witness ==
    /\ hist.starts = 2
    /\ thread_running /\ ~shutdown_requested
    /\ lifetime_updates_count = 0
    /\ lifetime_thread.pc = "store"

(***************************************************************************)
(* SpecDiscard: the thread that owns the manager and the generator calls   *)
(* CleanupExpiredAsync and GenerateObstaclesAsync as expression            *)
(* statements, so that the returned future is a temporary it never waits   *)
(* on, and destroys either object when it likes.  No lifetime worker is    *)
(* started and the pool threads stay parked.                               *)
(***************************************************************************)
\* cells and lifetimes passed to AddFixedObstacle; an obstacle constructed
\* with lifetime 0 is expired from the start
DiscardCells == {Point(0, 0), Point(1, 1)}
DiscardLifetimes == {0, F32_0_3}
\* the configs GenerateObstaclesWorker(fixed_count, moving_count, ...) builds
\* of the counts passed: none or one obstacle is asked for
DiscardConfigs ==
    {c \in Configs : /\ c.forbidden_positions = {}
                     /\ c.max_retries = 2
                     /\ c.fixed_count + c.moving_count <= 1}

InitDiscard == InitGen

\* CleanupExpiredAsync(): std::async(std::launch::async, ...) has made the
\* task; the owner is left with the temporary future
SimCallCleanupExpiredAsync ==
    /\ sim = SimIdle
    /\ ~destroyed.manager
    /\ cleanup_future = "none"
    /\ cleanup_future' = "lock"
    /\ sim' = SimAt("discard", "CleanupExpiredAsync", 0, 0, 0, 0, 0)
    /\ returned' = NoReturn
    /\ UNCHANGED <<config, obstacles, hist, obstacles_mutex, shutdown_requested,
                   thread_running, lifetime_updates_count, lifetime_thread, crashed>>

\* mutant: the temporary future is destroyed without a wait for its task
SimDiscardCleanupFutureDetached ==
    /\ sim.pc = "discard"
    /\ sim.op = "CleanupExpiredAsync"
    /\ sim' = SimIdle
    /\ returned' = Outcome("CleanupExpiredAsync", 0, 0, 0)
    /\ UNCHANGED <<config, obstacles, hist, obstacles_mutex, shutdown_requested,
                   thread_running, lifetime_updates_count, lifetime_thread,
                   cleanup_future, crashed>>

\* the end of the full expression: ~future() of a std::async future blocks
\* until the task has finished, then the shared state is released
SimDiscardCleanupFuture ==
    /\ sim.pc = "discard"
    /\ sim.op = "CleanupExpiredAsync"
    /\ cleanup_future = "done"
    /\ cleanup_future' = "none"
    /\ sim' = SimIdle
    /\ returned' = Outcome("CleanupExpiredAsync", 1, 0, 0)
    /\ UNCHANGED <<config, obstacles, hist, obstacles_mutex, shutdown_requested,
                   thread_running, lifetime_updates_count, lifetime_thread, crashed>>

\* GenerateObstaclesAsync(fixed_count, moving_count): std::async has made the
\* task, which has not started to run
SimCallGenerateObstaclesAsync ==
    /\ sim = SimIdle
    /\ ~destroyed.generator
    /\ gen.pc = "none"
    /\ sim' = SimAt("discard", "GenerateObstaclesAsync", 0, 0, 0, 0, 0)
    /\ returned' = NoReturn
    /\ UNCHANGED <<config, obstacles, hist, obstacles_mutex, shutdown_requested,
                   thread_running, lifetime_updates_count, lifetime_thread,
                   cleanup_future, crashed>>

\* the task of GenerateObstaclesAsync enters GenerateObstaclesWorker with the
\* config made of the captured counts
AsyncGenerateObstaclesWorker ==
    /\ sim.pc = "discard"
    /\ sim.op = "GenerateObstaclesAsync"
    /\ \E cfg \in DiscardConfigs : GenerateObstaclesWorker(cfg)

\* the end of the full expression: ~future() blocks until the task has
\* returned, then the vector it returned is destroyed with the shared state
SimDiscardGenerateFuture ==
    /\ sim.pc = "discard"
    /\ sim.op = "GenerateObstaclesAsync"
    /\ gen.pc = "done"
    /\ gen' = NoGeneration
    /\ sim' = SimIdle
    /\ returned' = Outcome("GenerateObstaclesAsync", 1, 0, 0)
    /\ UNCHANGED <<grid_width, grid_height, moving_obstacle_speed, mvars, gvars, pvars,
                   validate, destroyed, hsvars, evars, obstacles, hist, obstacles_mutex,
                   shutdown_requested, thread_running, lifetime_updates_count,
                   lifetime_thread, cleanup_future, crashed>>

\* ~ThreadedObstacleManager(): StopLifetimeThread() finds no worker running,
\* then the members and the collection are destroyed
DestroyManager ==
    /\ sim = SimIdle
    /\ ~destroyed.manager
    /\ ~thread_running
    /\ destroyed' = [destroyed EXCEPT !.manager = TRUE]
    /\ obstacles' = << >>
    /\ UNCHANGED <<grid_width, grid_height, moving_obstacle_speed, mvars, gvars, pvars,
                   gen, validate, hsvars, evars, hist, returned, tvars>>

\* ~AsyncObstacleGenerator(): StopThreadPool() stores stop_threads, joins the
\* parked pool threads and clears worker_threads, then the members are
\* destroyed
DestroyGenerator ==
    /\ sim = SimIdle
    /\ ~destroyed.generator
    /\ destroyed' = [destroyed EXCEPT !.generator = TRUE]
    /\ stop_threads' = TRUE
    /\ UNCHANGED <<grid_width, grid_height, moving_obstacle_speed, mvars, gvars,
                   task_queue, queue_mutex, worker_threads, caller, callbacks,
                   gen, validate, hsvars, evars, obstacles, hist, returned, tvars>>

\* a step of a task made by std::async
DiscardTaskStep ==
    \/ SweepLockUnique
    \/ SweepRun
    \/ AsyncGenerateObstaclesWorker
    \/ GenFor
    \/ GenDo
    \/ \E l \in GenLifetimes, p \in GenPatterns : GenIf(l, p)

NextDiscard ==
    \/ (sim = SimIdle /\ ~destroyed.manager) /\
          \E c \in DiscardCells, l \in DiscardLifetimes : AddFixedObstacle(c.x, c.y, l)
    \/ SimCallCleanupExpiredAsync
    \/ SimDiscardCleanupFuture
    \/ SimCallGenerateObstaclesAsync
    \/ SimDiscardGenerateFuture
    \/ DestroyManager
    \/ DestroyGenerator
    \/ SweepLockUnique
    \/ SweepRun
    \/ AsyncGenerateObstaclesWorker
    \/ GenFor
    \/ GenDo
    \/ \E l \in GenLifetimes, p \in GenPatterns : GenIf(l, p)

\* a task made by std::async runs on a thread of its own, which is scheduled;
\* the owner, blocked in ~future(), goes on once the task has finished
FairDiscard ==
    /\ WF_vars(DiscardTaskStep)
    /\ WF_vars(SimDiscardCleanupFuture)
    /\ WF_vars(SimDiscardGenerateFuture)

SpecDiscard == InitDiscard /\ [][NextDiscard]_vars /\ FairDiscard

\* a task made by CleanupExpiredAsync / GenerateObstaclesAsync has not finished
CleanupTaskInFlight == cleanup_future \in {"lock", "hold"}
GenerateTaskInFlight ==
    sim.op = "GenerateObstaclesAsync" /\ gen.pc \in {"none", "for", "do", "if"}

\* C21: while a task of CleanupExpiredAsync or GenerateObstaclesAsync has not
\* finished, the manager or generator it works on has not been destroyed; a
\* task is made only by its call and finishes only while its caller stands at
\* the discarded future, which is released only after the task has finished,
\* so each task runs once and to its end; and the caller that discards the
\* future always comes back from it
C21_DiscardedFutureIsSafe ==
    /\ [](CleanupTaskInFlight => ~destroyed.manager)
    /\ [](GenerateTaskInFlight => ~destroyed.generator)
    /\ [][ /\ (cleanup_future = "none" /\ cleanup_future' /= "none") =>
                  SimCallCleanupExpiredAsync
           /\ (cleanup_future /= "done" /\ cleanup_future' = "done") =>
                  (cleanup_future = "hold" /\ sim.op = "CleanupExpiredAsync")
           /\ (gen.pc /= "done" /\ gen'.pc = "done") =>
                  (gen.pc = "for" /\ sim.op = "GenerateObstaclesAsync")
           /\ (sim.pc = "discard" /\ sim'.pc /= "discard") =>
                  \/ sim.op = "CleanupExpiredAsync" /\ cleanup_future = "done"
                  \/ sim.op = "GenerateObstaclesAsync" /\ gen.pc = "done" ]_vars
    /\ (sim.pc = "discard") ~> (sim = SimIdle)

\* the manager was destroyed right after the owner came back from the
\* discarded future of a sweep
C21_Witness ==
    /\ destroyed.manager
    /\ hist.ids >= 1
    /\ returned = Outcome("CleanupExpiredAsync", 1, 0, 0)

\* the generator was destroyed right after the owner came back from the
\* discarded future of a generation
C21_WitnessGenerator ==
    /\ destroyed.generator
    /\ returned = Outcome("GenerateObstaclesAsync", 1, 0, 0)

\* the owner stands at the discarded future while its sweep holds the lock
\* over an expired obstacle
C21_WitnessBlocked ==
    /\ sim.pc = "discard"
    /\ sim.op = "CleanupExpiredAsync"
    /\ cleanup_future = "hold"
    /\ \E k \in 1..Len(obstacles) : IsExpired(obstacles[k])

(***************************************************************************)
(* Further claims on SpecMove                                              *)
(***************************************************************************)
\* C31: SetPattern(p) leaves the obstacle with pattern p and movement counter
\* 0, and with the position, speed, direction and remaining lifetime it had
C31_SetPatternResetsCounterOnly ==
    [][\A p \in Patterns : MoveSetPattern(p) =>
          /\ obstacles'[1].pattern = p
          /\ obstacles'[1].movement_counter = 0
          /\ obstacles'[1].x = obstacles[1].x
          /\ obstacles'[1].y = obstacles[1].y
          /\ obstacles'[1].speed = obstacles[1].speed
          /\ obstacles'[1].direction = obstacles[1].direction
          /\ obstacles'[1].remaining_lifetime = obstacles[1].remaining_lifetime]_vars

\* SetPattern was the last call, on an obstacle of speed 1.0f that had been
\* updated at least twice since it was last configured, so that its counter
\* had left 0
C31_Witness ==
    /\ returned[1] = "SetPattern"
    /\ returned[2] >= 2
    /\ obstacles[1].speed = SpeedOne
    /\ obstacles[1].movement_counter = 0
    /\ obstacles[1].pattern = "ZIGZAG"

(***************************************************************************)
(* SpecBoard: the game on a small board.  Game takes any grid size; with   *)
(* MaxSpawns obstacles the 2x1 board can fill up, the 2x2 board once one   *)
(* more obstacle is spawned.                                               *)
(***************************************************************************)
BoardGrids == {<<2, 1>>, <<2, 2>>}
\* the cells of the board: GenerateRandomPosition() of a spawn draws any
BoardCells == [x : 0..(grid_width - 1), y : 0..(grid_height - 1)]

\* Game::Game
InitBoard ==
    /\ \E g \in BoardGrids : grid_width = g[1] /\ grid_height = g[2]
    /\ obstacles = << >>
    /\ moving_obstacle_speed = kDefaultSpeed
    /\ hist = HistInit
    /\ returned = NoReturn
    /\ ThreadInit
    /\ ManagerInit
    /\ PoolInit
    /\ WorkInit
    /\ snake = Snake(grid_width, grid_height)
    /\ \E f \in PlaceFood(<< >>, snake, grid_width, grid_height) :
          game = [GameNew EXCEPT !.food = f]

NextBoard ==
    \/ UpdateEnterName
    \/ ResetGame
    \/ \E spawn \in BOOLEAN, pos \in BoardCells, fixed \in BOOLEAN,
          pattern \in GamePatterns, direction \in Directions, dies \in BOOLEAN :
          GameUpdate(spawn, pos, fixed, pattern, direction, dies)

SpecBoard == InitBoard /\ [][NextBoard]_vars

\* a cell that neither the snake nor an obstacle occupies
FreeCells ==
    {c \in BoardCells : c /= HeadCell(snake) /\ IsPositionFree(obstacles, c.x, c.y)}

\* C32: in every state of the game some cell is occupied by neither the snake
\* nor an obstacle, and PlaceFood() is never left without a cell to end on
C32_BoardNeverFull == FreeCells /= {} /\ ~game.hung

\* the part of it about PlaceFood() alone
C32_PlaceFoodTerminates == ~game.hung

(***************************************************************************)
(* SpecStates: the game with the keys of its two closing screens           *)
(***************************************************************************)
\* Game::UpdateGameOver on SDLK_SPACE
UpdateGameOverSpace ==
    /\ game.currentState = "GAME_OVER"
    /\ game' = [game EXCEPT !.currentState = "SHOW_SCORES"]
    /\ returned' = NoReturn
    /\ UNCHANGED <<grid_width, grid_height, obstacles, moving_obstacle_speed, hist,
                   mvars, snake, pvars, avars>>
    /\ UNCHANGED tvars

\* Game::UpdateShowScores on SDLK_ESCAPE
UpdateShowScoresEscape ==
    /\ game.currentState = "SHOW_SCORES"
    /\ game' = [game EXCEPT !.currentState = "GAME_OVER"]
    /\ returned' = NoReturn
    /\ UNCHANGED <<grid_width, grid_height, obstacles, moving_obstacle_speed, hist,
                   mvars, snake, pvars, avars>>
    /\ UNCHANGED tvars

NextStates ==
    \/ UpdateEnterName
    \/ ResetGame
    \/ UpdateGameOverSpace
    \/ UpdateShowScoresEscape
    \/ \E spawn \in BOOLEAN, pos \in GameSpawnCells, fixed \in BOOLEAN,
          pattern \in GamePatterns, direction \in Directions, dies \in BOOLEAN :
          GameUpdate(spawn, pos, fixed, pattern, direction, dies)

SpecStates == InitGame /\ [][NextStates]_vars

\* C33: the state of the game changes only from ENTER_NAME to PLAYING, from
\* PLAYING to GAME_OVER, from GAME_OVER to SHOW_SCORES, and by a restart from
\* one of the two closing screens to ENTER_NAME
C33_StateChangesFollowTheChain ==
    [][game'.currentState /= game.currentState =>
          \/ game.currentState = "ENTER_NAME" /\ game'.currentState = "PLAYING"
          \/ game.currentState = "PLAYING" /\ game'.currentState = "GAME_OVER"
          \/ game.currentState = "GAME_OVER" /\ game'.currentState = "SHOW_SCORES"
          \/ /\ game.currentState \in {"GAME_OVER", "SHOW_SCORES"}
             /\ game'.currentState = "ENTER_NAME"]_vars

\* the same with the way back from the scores to the game-over screen
C33_StateChangesWithWayBack ==
    [][game'.currentState /= game.currentState =>
          \/ game.currentState = "ENTER_NAME" /\ game'.currentState = "PLAYING"
          \/ game.currentState = "PLAYING" /\ game'.currentState = "GAME_OVER"
          \/ game.currentState = "GAME_OVER" /\ game'.currentState = "SHOW_SCORES"
          \/ game.currentState = "SHOW_SCORES" /\ game'.currentState = "GAME_OVER"
          \/ /\ game.currentState \in {"GAME_OVER", "SHOW_SCORES"}
             /\ game'.currentState = "ENTER_NAME"]_vars

(***************************************************************************)
(* The high-score list: HighScoreManager                                   *)
(***************************************************************************)
\* HighScoreManager::kMaxScores
kMaxScores == 10

\* the calls of SaveScore in a behaviour
MaxSaves == 3

\* the lines after the header of a score file found at construction
MaxFileLines == 11

\* a character of a score field that is not a decimal digit
NonDigit == -1

ScoreEntry(name, s, time) == [playerName |-> name, score |-> s, timestamp |-> time]

\* operator<< of an int: the decimal digits of a score that is not negative
RECURSIVE Digits(_)
Digits(n) == IF n < 10 THEN <<n>> ELSE Append(Digits(n \div 10), n % 10)

\* the value std::stoi reads: the digits up to the first other character
RECURSIVE StoiFrom(_, _, _)
StoiFrom(str, i, acc) ==
    IF i > Len(str) \/ str[i] = NonDigit
    THEN acc
    ELSE StoiFrom(str, i + 1, acc * 10 + str[i])

\* std::stoi throws std::invalid_argument where no digit starts the field
StoiThrows(str) == Len(str) = 0 \/ str[1] = NonDigit

\* the line SaveScore writes for an entry
FileLine(entry) ==
    [fields |-> 3, playerName |-> entry.playerName, scoreStr |-> Digits(entry.score),
     timestamp |-> entry.timestamp]

\* LoadScores(): an empty line, a line with fewer than three fields and a line
\* whose score std::stoi rejects add no entry
LineLoads(line) == line.fields = 3 /\ ~StoiThrows(line.scoreStr)

RECURSIVE ParseLines(_)
ParseLines(lines) ==
    IF lines = << >>
    THEN << >>
    ELSE LET line == Head(lines) IN
         (IF LineLoads(line)
          THEN <<ScoreEntry(line.playerName, StoiFrom(line.scoreStr, 1, 0), line.timestamp)>>
          ELSE << >>) \o ParseLines(Tail(lines))

\* the greatest score of a list that is not empty
MaxScore(entries) ==
    CHOOSE m \in {entries[i].score : i \in DOMAIN entries} :
        \A i \in DOMAIN entries : entries[i].score <= m

RemoveAt(entries, i) == SubSeq(entries, 1, i - 1) \o SubSeq(entries, i + 1, Len(entries))

\* SortScores(): std::sort by a.score > b.score; entries of equal score are
\* left in any order
RECURSIVE SortScores(_)
SortScores(entries) ==
    IF entries = << >>
    THEN {<< >>}
    ELSE LET firsts == {entries[i] : i \in {j \in DOMAIN entries :
                                              entries[j].score = MaxScore(entries)}}
         IN  UNION {{<<e>> \o rest :
                       rest \in SortScores(RemoveAt(entries,
                                   CHOOSE i \in DOMAIN entries : entries[i] = e))} :
                    e \in firsts}

\* mutant: the list is cut to one entry more than kMaxScores
TrimScoresLate(entries) ==
    IF Len(entries) > kMaxScores + 1 THEN SubSeq(entries, 1, kMaxScores + 1) ELSE entries

\* TrimScores()
TrimScores(entries) ==
    IF Len(entries) > kMaxScores THEN SubSeq(entries, 1, kMaxScores) ELSE entries

\* LoadScores() on an existing file: the entries of the lines, sorted
LoadScores(file) == SortScores(ParseLines(file.lines))

\* names handed to SaveScore: empty, blank, and a valid name
PlayerNames == {"", " ", "ann"}

\* SanitizePlayerName(name): blanks at both ends are dropped, and an empty
\* result becomes "Player"
SanitizePlayerName(name) == IF name = " " THEN "Player" ELSE name

\* IsValidPlayerName(name)
IsValidPlayerName(name) == name /= "" /\ name /= " "

\* scores handed to SaveScore
SavedScores == {0, 5, 12}

\* lines of a score file that LoadScores() skips
SkippedLines ==
    {[fields |-> 0, playerName |-> "", scoreStr |-> << >>, timestamp |-> ""],
     [fields |-> 2, playerName |-> "ann", scoreStr |-> <<7>>, timestamp |-> ""],
     [fields |-> 3, playerName |-> "ann", scoreStr |-> <<NonDigit, 7>>, timestamp |-> "old"]}

\* the score of line i of a file written in no order
FileScore(i) == (i % 3) * 6

\* score files found at construction: none, and files of up to MaxFileLines
\* lines in no order, some behind a line that is skipped
ScoreFiles ==
    {[exists |-> FALSE, lines |-> << >>]}
    \cup {[exists |-> TRUE,
           lines |-> [i \in 1..n |-> FileLine(ScoreEntry("bob", FileScore(i), "old"))]] :
          n \in 0..MaxFileLines}
    \cup {[exists |-> TRUE,
           lines |-> <<l>> \o
                     [i \in 1..n |-> FileLine(ScoreEntry("bob", FileScore(i), "old"))]] :
          n \in 0..(MaxFileLines - 1), l \in SkippedLines}

\* HighScoreManager(filename): LoadScores()
InitScores ==
    /\ \E g \in GridSizes : grid_width = g[1] /\ grid_height = g[2]
    /\ obstacles = << >>
    /\ moving_obstacle_speed = kDefaultSpeed
    /\ hist = HistInit
    /\ returned = NoReturn
    /\ ThreadInit
    /\ ManagerInit
    /\ GameInit
    /\ PoolInit
    /\ gen = NoGeneration
    /\ validate = NoValidation
    /\ destroyed = NoneDestroyed
    /\ \E file \in ScoreFiles :
          IF file.exists
          THEN /\ scores_ \in LoadScores(file)
               /\ scores_file = file
          ELSE ScoresInit
    /\ EngineInit

outside_scores ==
    <<grid_width, grid_height, obstacles, moving_obstacle_speed, tvars, mvars, gvars,
      pvars, gen, validate, destroyed, evars>>

\* SaveScore(name, score): an empty or invalid name throws before the list is
\* touched; otherwise the entry is added, the list sorted and trimmed, and
\* the file written again
SaveScore(name, score) ==
    /\ hist.ticks < MaxSaves
    /\ hist' = [hist EXCEPT !.ticks = @ + 1]
    /\ IF name = "" \/ ~IsValidPlayerName(SanitizePlayerName(name))
       THEN /\ returned' = Outcome("SaveScore", 0, score, Len(scores_))
            /\ UNCHANGED hsvars
       ELSE \E sorted \in SortScores(Append(scores_,
                             ScoreEntry(SanitizePlayerName(name), score, "now"))) :
              /\ scores_' = TrimScores(sorted)
              /\ scores_file' = [exists |-> TRUE,
                                 lines |-> [i \in DOMAIN scores_' |-> FileLine(scores_'[i])]]
              /\ returned' = Outcome("SaveScore", 1, score, Len(scores_))
    /\ UNCHANGED outside_scores

\* ClearScores()
ClearScores ==
    /\ scores_ /= << >>
    /\ scores_' = << >>
    /\ scores_file' = EmptyFile
    /\ returned' = Outcome("ClearScores", 0, 0, Len(scores_))
    /\ UNCHANGED <<hist, outside_scores>>

NextScores ==
    \/ \E name \in PlayerNames, score \in SavedScores : SaveScore(name, score)
    \/ ClearScores

SpecScores == InitScores /\ [][NextScores]_vars

\* the list is in descending order of score
SortedDescending(entries) ==
    \A i \in DOMAIN entries : \A j \in DOMAIN entries :
        i < j => entries[i].score >= entries[j].score

\* C34: at all times after construction, that is after the score file was
\* loaded and after any sequence of SaveScore calls, the high-score list is
\* sorted by score in descending order and holds at most kMaxScores entries
C34_SortedAndAtMostTen ==
    SortedDescending(scores_) /\ Len(scores_) <= kMaxScores

\* the list is sorted at all times
C34_AlwaysSorted == SortedDescending(scores_)

\* a call of SaveScore that added an entry leaves at most kMaxScores entries,
\* in descending order, and a file that loads to a list of the same scores
C34_SaveScoreSortsAndTrims ==
    [][(returned'[1] = "SaveScore" /\ returned'[2] = 1 /\ hist' /= hist) =>
          /\ SortedDescending(scores_')
          /\ Len(scores_') <= kMaxScores
          /\ ParseLines(scores_file'.lines) =
                 [i \in DOMAIN scores_' |->
                     ScoreEntry(scores_'[i].playerName, scores_'[i].score,
                                scores_'[i].timestamp)]]_vars

\* SaveScore was called on a full list and left kMaxScores entries
C34_WitnessTrimmed ==
    /\ returned[1] = "SaveScore" /\ returned[2] = 1
    /\ returned[3].y = kMaxScores
    /\ Len(scores_) = kMaxScores

(***************************************************************************)
(* Further claims on SpecBoard                                             *)
(***************************************************************************)
\* the obstacle an Update() step spawned: the last of the collection
SpawnedInStep == obstacles'[Len(obstacles')]

\* C35: during play, SpawnRandomObstacle never places a new obstacle on the
\* cell the head is on or on the cell of the food (the snake of the model is
\* its head; a body segment is a cell the head was on)
C35_SpawnAvoidsSnakeAndFood ==
    [][(returned'[1] = "Update" /\ hist'.ids > hist.ids) =>
          /\ Point(SpawnedInStep.x, SpawnedInStep.y) /= HeadCell(snake)
          /\ Point(SpawnedInStep.x, SpawnedInStep.y) /= game.food]_vars

\* an obstacle is never spawned on the food
C35_SpawnAvoidsFood ==
    [][(returned'[1] = "Update" /\ hist'.ids > hist.ids) =>
          Point(SpawnedInStep.x, SpawnedInStep.y) /= game.food]_vars

\* an obstacle is never spawned on the head
C35_SpawnAvoidsHead ==
    [][(returned'[1] = "Update" /\ hist'.ids > hist.ids) =>
          Point(SpawnedInStep.x, SpawnedInStep.y) /= HeadCell(snake)]_vars

\* a spawned obstacle is on a cell no other obstacle is on after the movement
\* update of the same tick
C35_SpawnAvoidsObstacles ==
    [][(returned'[1] = "Update" /\ hist'.ids > hist.ids) =>
          \A j \in 1..(Len(obstacles') - 1) :
              Point(obstacles'[j].x, obstacles'[j].y) /=
                  Point(SpawnedInStep.x, SpawnedInStep.y)]_vars

(***************************************************************************)
(* SpecLinear: moving obstacles with a linear pattern, added by the        *)
(* manager at the speed of its difficulty level and updated tick by tick   *)
(***************************************************************************)
\* levels passed to SetDifficultyLevel: the levels of the scores 0, 10 and 70
LinearLevels == {1, 3, 15}

LinearPatterns == {"LINEAR_HORIZONTAL", "LINEAR_VERTICAL"}

NextLinear ==
    \/ \E level \in LinearLevels : SetDifficultyLevel(level)
    \/ \E x \in Cols, y \in Rows, p \in LinearPatterns, l \in Lifetimes :
          AddMovingObstacle(x, y, p, l)
    \/ UpdateObstacleMovementWithin(MaxTicks)

\* the frame loop calls UpdateObstacleMovement() again and again
SpecLinear ==
    Init /\ [][NextLinear]_vars /\ WF_vars(UpdateObstacleMovementWithin(MaxTicks))

\* obstacle i is a moving obstacle with a linear pattern, at the speed the
\* manager has at the given level, on cell c
LinearAt(i, level, c) ==
    /\ i <= Len(obstacles)
    /\ obstacles[i].type = "MOVING"
    /\ obstacles[i].pattern \in LinearPatterns
    /\ obstacles[i].speed = LevelSpeed(level)
    /\ Point(obstacles[i].x, obstacles[i].y) = c

\* the cells the obstacles are added on
LinearCells == {Point(x, y) : x \in Cols, y \in Rows}

\* the cells a linear obstacle advances per Update() at a level
CellsPerTick(level) == FloatToInt(LevelSpeed(level))

\* C36: a moving obstacle the manager added with a linear pattern at the
\* speed of a difficulty level >= 1 leaves the cell it was added on after
\* finitely many Update() calls, and a higher level never makes it move slower
C36_LinearObstacleMoves ==
    /\ \A i \in 1..MaxSpawns, level \in LinearLevels, c \in LinearCells :
          (LinearAt(i, level, c) /\ hist.ticks = 0) ~> (LinearAt(i, level, c) => FALSE)
    /\ [](\A a \in LinearLevels, b \in LinearLevels :
             a <= b => CellsPerTick(a) <= CellsPerTick(b))

\* no Update() moves a linear obstacle whose speed is below one cell per tick,
\* whatever its movement_counter
C36_SubUnitSpeedNeverMoves ==
    [][\A i \in 1..Len(obstacles) :
          (/\ hist'.ticks = hist.ticks + 1
           /\ obstacles[i].type = "MOVING"
           /\ obstacles[i].pattern \in LinearPatterns
           /\ FloatToInt(obstacles[i].speed) = 0)
          => Point(obstacles'[i].x, obstacles'[i].y) =
                 Point(obstacles[i].x, obstacles[i].y)]_vars

\* a higher level never makes a linear obstacle slower
C36_HigherLevelNotSlower ==
    \A a \in LinearLevels, b \in LinearLevels :
        a <= b => CellsPerTick(a) <= CellsPerTick(b)

(***************************************************************************)
(* SpecEngine: the tasks of one AsyncObstacleGenerator and its random      *)
(* engine.  GenerateRandomPosition(), GetRandomMovementPattern() and       *)
(* GenerateRandomLifetime() call a distribution on the member engine; a    *)
(* call is two steps, its beginning and its end.                           *)
(***************************************************************************)
\* calls of a distribution one task makes
MaxDraws == 2

\* the function that makes each task
EngineTaskKind(t) ==
    CASE t = 1 -> "GenerateObstaclesAsync"
      [] t = 2 -> "GenerateValidPositionsAsync"
      [] OTHER -> "GenerateObstaclesWithCallback"

outside_engine ==
    <<grid_width, grid_height, obstacles, moving_obstacle_speed, hist, tvars, mvars,
      gvars, pvars, gen, validate, destroyed, hsvars>>

\* std::async(std::launch::async, ...) starts a thread for tasks 1 and 2; a
\* pool thread that took the callback task from task_queue has released
\* queue_mutex and calls task()
EngineTaskStart(t) ==
    /\ async_tasks[t].pc = "none"
    /\ async_tasks' = [async_tasks EXCEPT ![t].pc = "running"]
    /\ returned' = Outcome(EngineTaskKind(t), t, 0, 0)
    /\ UNCHANGED <<engine, outside_engine>>

\* the task enters distribution(engine): no mutex is locked around a draw, so
\* it begins whenever its task reaches it; the engine is corrupted where
\* another task is inside a draw
EngineEnter(t) ==
    /\ async_tasks[t].pc = "running"
    /\ async_tasks[t].draws < MaxDraws
    /\ engine' = [users |-> engine.users \cup {t},
                  raced |-> engine.raced \/ engine.users /= {}]
    /\ async_tasks' = [async_tasks EXCEPT ![t].pc = "drawing"]
    /\ UNCHANGED <<returned, outside_engine>>

\* distribution(engine) returns
EngineLeave(t) ==
    /\ async_tasks[t].pc = "drawing"
    /\ engine' = [engine EXCEPT !.users = @ \ {t}]
    /\ async_tasks' = [async_tasks EXCEPT ![t].pc = "running", ![t].draws = @ + 1]
    /\ UNCHANGED <<returned, outside_engine>>

\* the worker function returns
EngineTaskReturn(t) ==
    /\ async_tasks[t].pc = "running"
    /\ async_tasks' = [async_tasks EXCEPT ![t].pc = "done"]
    /\ UNCHANGED <<engine, returned, outside_engine>>

NextEngine ==
    \E t \in EngineTasks :
        \/ EngineTaskStart(t)
        \/ EngineEnter(t)
        \/ EngineLeave(t)
        \/ EngineTaskReturn(t)

SpecEngine == Init /\ [][NextEngine]_vars

\* C37: tasks of one generator that run at the same time never access its
\* random engine and distributions concurrently: at most one task is inside a
\* draw at any time
C37_EngineAccessExclusive ==
    Cardinality(engine.users) <= 1 /\ ~engine.raced

\* a pool callback task and a std::async task are inside a draw together
C37_WitnessPoolAndAsync ==
    /\ 3 \in engine.users
    /\ engine.users \cap {1, 2} /= {}

(***************************************************************************)
(* Further claims on SpecT                                                 *)
(***************************************************************************)
\* C38: with no worker activity in between, the movement update of the
\* threaded manager, which updates the moving obstacles only, under the
\* shared lock, leaves the collection in exactly the state the update of the
\* base manager, Update() on every obstacle, yields from the same collection
C38_ThreadedMovementAsBase ==
    /\ [](MoveMoving(obstacles, grid_width, grid_height) =
              MoveAll(obstacles, grid_width, grid_height))
    /\ [][(sim.op = "UpdateObstacleMovement" /\ sim.pc = "hold" /\ sim' = SimIdle) =>
              /\ "sim" \in obstacles_mutex.shared
              /\ obstacles' \in MoveAll(obstacles, grid_width, grid_height)]_vars

\* the threaded update has run on a collection of a fixed and a moving
\* obstacle: the moving obstacle has been updated, the fixed one is there
C38_Witness ==
    /\ sim = SimIdle
    /\ hist.ticks >= 1
    /\ \E i \in 1..Len(obstacles) : obstacles[i].type = "FIXED"
    /\ \E j \in 1..Len(obstacles) :
          obstacles[j].type = "MOVING" /\ obstacles[j].movement_counter > 0

====
